---------------------------- MODULE Spec2Model ----------------------------
(***************************************************************************)
(* gittui: contribution graph, streak statistics, peak coding hour and the *)
(* Bubble Tea dashboard model.                                             *)
(*                                                                         *)
(* Calendar dates are day numbers (day 0 is a Sunday, so the weekday of a  *)
(* date d is d % 7 with 0 = Sunday); instants are hour numbers (the hour   *)
(* of day of an instant t is t % 24).  All dates are midnight UTC, as      *)
(* time.Parse("2006-01-02", ...) produces them.                            *)
(***************************************************************************)
EXTENDS Integers, Sequences, FiniteSets, TLC

VARIABLES
    \* ---- streak statistics (calculateCurrentStreak / calculateLongestStreak)
    contributions,   \* []Contribution handed to the streak functions
    today,           \* the civil date of time.Now()
    streakPc,        \* "start" | "done"
    currentStreak,   \* result of calculateCurrentStreak
    longestStreak,   \* result of calculateLongestStreak
    \* ---- grid builder (Graph.buildGrid)
    gContributions,  \* Graph.contributions
    gridPc,          \* "start" | "done"
    grid,            \* result of buildGrid: [0..6 -> [0..51 -> Int]]
    \* ---- responsive rendering (Graph.RenderResponsive)
    terminalWidth,   \* argument of RenderResponsive
    warnPc,          \* "start" | "done"
    rendered,        \* what RenderResponsive returned
    \* ---- peak coding hour (CalculatePeakCodingHour)
    activities,      \* []Activity
    now,             \* time.Now()
    window,          \* TimeWindow
    peakPc,          \* "start" | "done"
    hoursIter,       \* order in which `for hour := range hourCounts` ran
    peakString,      \* first result
    hourCounts,      \* second result
    \* ---- the dashboard (type Model and the Bubble Tea runtime)
    isOwnProfile,    \* Model.isOwnProfile
    publicOnly,      \* Model.publicOnly
    loading,         \* Model.loading
    err,             \* Model.err: "nil" or "err"
    profile,         \* Model.profile: "nil" or the includePrivate it was fetched with
    graph,           \* Model.graph: "nil" or "graph"
    languages,       \* Model.languages, as profile
    repositories,    \* Model.repositories, as profile
    mActivities,     \* Model.activities, as profile
    ready,           \* Model.ready
    width,           \* Model.width
    pending,         \* commands handed to the runtime whose message is not yet delivered
    batches,         \* number of fetch batches the r and p keys have issued
    quitting,        \* tea.Quit was returned
    \* ---- summary statistics and intensity (CalculateStats, getContributionLevel)
    sContributions,  \* []Contribution handed to CalculateStats
    levelCount,      \* argument of getContributionLevel
    statsPc,         \* "start" | "done"
    stats,           \* result of CalculateStats
    level,           \* result of getContributionLevel
    \* ---- hour range label (formatHourRange)
    fStart,          \* argument start
    fStartPeriod,    \* argument startPeriod
    fEnd,            \* argument end
    fEndPeriod,      \* argument endPeriod
    fmtPc,           \* "start" | "done"
    fmtResult,       \* result of formatHourRange
    \* ---- push rate (CalculatePushRate)
    rActivities,     \* []Activity
    rNow,            \* time.Now()
    granularity,     \* PushGranularity
    ratePc,          \* "start" | "done"
    pushRate,        \* the float64 returned
    \* ---- theme system (InitTheme, NextTheme)
    themes,          \* the registry: theme name -> Theme
    themeOrder,      \* []string
    currentThemeName,
    CurrentTheme,
    startTheme,      \* currentThemeName as InitTheme left it
    tPresses,        \* number of t key messages Update has handled
    visited,         \* the names NextTheme returned, in order
    \* ---- ASCII font (getCharIndex)
    char,            \* argument: a rune, as its code point
    charPc,          \* "start" | "done"
    charIndex,       \* result of getCharIndex
    \* ---- month labels (the anchor walk and Graph.renderMonthLabels)
    lContributions,  \* Graph.contributions
    labelPc,         \* "start" | "done"
    anchorDate,      \* startDate after the backward walk
    walkSteps,       \* number of times the walk stepped back one day
    labelRow,        \* labelChars: [0..103 -> one-character string]
    \* ---- top repositories column (View, renderStatsRow, renderTopRepos)
    viewWidth,       \* Model.width when View runs
    repoName,        \* len(repo.Name)
    repoPc,          \* "start" | "done"
    repoLine,        \* outcome of the truncation of the name
    \* ---- push granularity (the g key)
    pushGranularity  \* Model.pushGranularity

streakVars == <<contributions, today, streakPc, currentStreak, longestStreak>>
gridVars   == <<gContributions, gridPc, grid>>
warnVars   == <<terminalWidth, warnPc, rendered>>
peakVars   == <<activities, now, window, peakPc, hoursIter, peakString, hourCounts>>

appVars    == <<isOwnProfile, publicOnly, loading, err, profile,
               graph, languages, repositories, mActivities, ready,
               width, pending, batches, quitting>>

statsVars  == <<sContributions, levelCount, statsPc, stats, level>>
fmtVars    == <<fStart, fStartPeriod, fEnd, fEndPeriod, fmtPc, fmtResult>>
rateVars   == <<rActivities, rNow, granularity, ratePc, pushRate>>
themeVars  == <<themes, themeOrder, currentThemeName, CurrentTheme,
               startTheme, tPresses, visited>>

charVars   == <<char, charPc, charIndex>>
labelVars  == <<lContributions, labelPc, anchorDate, walkSteps, labelRow>>
repoVars   == <<viewWidth, repoName, repoPc, repoLine>>
keyVars    == <<pushGranularity>>

vars == <<streakVars, gridVars, warnVars, peakVars, appVars,
          statsVars, fmtVars, rateVars, themeVars,
          charVars, labelVars, repoVars, keyVars>>

-----------------------------------------------------------------------------
(* Bounds of the model *)

MaxContribs == 4      \* longest contribution sequence given to the streaks
MaxDate     == 4      \* dates of the streak inputs are 1..MaxDate
MaxCount    == 1      \* contribution counts are 0..MaxCount

-----------------------------------------------------------------------------
(* Generic helpers *)

SeqsUpTo(S, n) == UNION {[1..k -> S] : k \in 0..n}

\* Go's integer division truncates toward zero.
GoDiv(a, b) == IF a >= 0 THEN a \div b ELSE -((-a) \div b)

\* type Contribution struct { Date time.Time; Count int }
Contribution(d, c) == [Date |-> d, Count |-> c]

NonDecreasing(cs) == \A i \in 1..(Len(cs) - 1) : cs[i].Date <= cs[i + 1].Date
StrictlyIncreasing(cs) == \A i \in 1..(Len(cs) - 1) : cs[i].Date < cs[i + 1].Date

-----------------------------------------------------------------------------
(* Streaks *)

\* The body of the backward loop of calculateCurrentStreak, from index i
\* (1-based) down to 1, with the loop's locals streak and expectedDate.
RECURSIVE CurrentStreakLoop(_, _, _, _, _)
CurrentStreakLoop(cs, i, streak, expectedDate, tdy) ==
    IF i < 1 THEN streak
    ELSE LET contribDate == cs[i].Date IN
         IF contribDate = expectedDate
         THEN IF cs[i].Count > 0
              THEN CurrentStreakLoop(cs, i - 1, streak + 1, expectedDate - 1, tdy)
              ELSE streak                                    \* break
         ELSE IF contribDate < expectedDate
         THEN IF streak = 0 /\ expectedDate = tdy
              THEN \* today is missing: start from yesterday
                   IF contribDate = tdy - 1 /\ cs[i].Count > 0
                   THEN CurrentStreakLoop(cs, i - 1, streak + 1, tdy - 2, tdy)
                   ELSE streak                               \* break
              ELSE streak                                    \* break
         ELSE \* contribDate is after expectedDate: next iteration
              CurrentStreakLoop(cs, i - 1, streak, expectedDate, tdy)

\* calculateCurrentStreak that steps over the days without contributions
calculateCurrentStreak_skipZero(cs, tdy) ==
    Cardinality({i \in DOMAIN cs : cs[i].Count > 0})

calculateCurrentStreak(cs, tdy) ==
    IF Len(cs) = 0 THEN 0
    ELSE CurrentStreakLoop(cs, Len(cs), 0, tdy, tdy)

\* The forward loop of calculateLongestStreak from index i to the end.
RECURSIVE LongestStreakLoop(_, _, _, _, _)
LongestStreakLoop(cs, i, longest, current, prevDate) ==
    IF i > Len(cs) THEN longest
    ELSE LET contribDate == cs[i].Date
             cur1 == IF current > 0 /\ contribDate # prevDate + 1
                     THEN 0 ELSE current
         IN  IF cs[i].Count > 0
             THEN LongestStreakLoop(cs, i + 1,
                                    IF cur1 + 1 > longest THEN cur1 + 1 ELSE longest,
                                    cur1 + 1, contribDate)
             ELSE LongestStreakLoop(cs, i + 1, longest, 0, prevDate)

\* calculateLongestStreak that takes any two neighbouring entries for
\* consecutive days
calculateLongestStreak_ignoreGaps(cs) ==
    IF Len(cs) = 0 THEN 0
    ELSE LongestStreakLoop([i \in DOMAIN cs |-> Contribution(i, cs[i].Count)], 1, 0, 0, 0)

calculateLongestStreak(cs) ==
    IF Len(cs) = 0 THEN 0
    ELSE LongestStreakLoop(cs, 1, 0, 0, 0)

StreakDates   == 1..MaxDate
StreakEntries == {Contribution(d, c) : d \in StreakDates, c \in 0..MaxCount}
StreakInputs  == {cs \in SeqsUpTo(StreakEntries, MaxContribs) : NonDecreasing(cs)}

StreakIdle ==
    /\ contributions = <<>>
    /\ today = 0
    /\ streakPc = "idle"
    /\ currentStreak = 0
    /\ longestStreak = 0

\* renderStreaks calls both functions on m.contributions.
ComputeStreaks ==
    /\ streakPc = "start"
    /\ currentStreak' = calculateCurrentStreak(contributions, today)
    /\ longestStreak' = calculateLongestStreak(contributions)
    /\ streakPc' = "done"
    /\ UNCHANGED <<contributions, today, gridVars, warnVars, peakVars, appVars,
                   statsVars, fmtVars, rateVars, themeVars,
                   charVars, labelVars, repoVars, keyVars>>


-----------------------------------------------------------------------------
(* Grid builder *)

weeksToDisplay == 52
daysPerWeek    == 7
HoursPerDay    == 24

MaxGridContribs == 3  \* longest contribution sequence given to buildGrid
MaxGridCount    == 2  \* counts of the grid inputs are 0..MaxGridCount

\* time.Time.Weekday() of a date, 0 = Sunday
Weekday(d) == d % 7

\* the first contribution's date taken as the anchor without a walk
SundayOnOrBefore_noWalk(startDate) == startDate

\* for startDate.Weekday() != time.Sunday { startDate = startDate.AddDate(0, 0, -1) }
RECURSIVE SundayOnOrBefore(_)
SundayOnOrBefore(startDate) ==
    IF Weekday(startDate) # 0 THEN SundayOnOrBefore(startDate - 1) ELSE startDate

\* contrib.Date.Sub(startDate).Hours(): both are midnight UTC
SubHours(d, startDate) == (d - startDate) * HoursPerDay

\* int(contrib.Date.Sub(startDate).Hours() / 24): int() truncates toward zero
DaysSinceStart(d, startDate) == GoDiv(SubHours(d, startDate), HoursPerDay)

\* week := daysSinceStart / 7   (Go integer division)
WeekOf(d, startDate) == GoDiv(DaysSinceStart(d, startDate), 7)

\* InGrid with the last week column left out
InGrid_offByOne(week, dayOfWeek) ==
    week >= 0 /\ week < weeksToDisplay - 1 /\ dayOfWeek >= 0 /\ dayOfWeek < daysPerWeek

\* the guard of the write into the grid
InGrid(week, dayOfWeek) ==
    week >= 0 /\ week < weeksToDisplay /\ dayOfWeek >= 0 /\ dayOfWeek < daysPerWeek

ZeroGrid == [day \in 0..(daysPerWeek - 1) |-> [week \in 0..(weeksToDisplay - 1) |-> 0]]

\* The fill loop of buildGrid from index i to the end.
RECURSIVE FillGrid(_, _, _, _)
FillGrid(cs, i, startDate, g) ==
    IF i > Len(cs) THEN g
    ELSE LET week      == WeekOf(cs[i].Date, startDate)
             dayOfWeek == Weekday(cs[i].Date)
         IN  IF InGrid(week, dayOfWeek)
             THEN FillGrid(cs, i + 1, startDate,
                           [g EXCEPT ![dayOfWeek][week] = cs[i].Count])
             ELSE FillGrid(cs, i + 1, startDate, g)

buildGrid(cs) ==
    IF Len(cs) = 0 THEN ZeroGrid
    ELSE FillGrid(cs, 1, SundayOnOrBefore(cs[1].Date), ZeroGrid)

\* Dates of the grid inputs.  7 is a Sunday, 10 a Wednesday (anchor 7);
\* 3 and 6 lie before the anchor 7; 370 = 7 + 363 is the last day of the
\* window anchored at 7, 371 and 400 lie behind it.
GridDates   == {3, 6, 7, 10, 370, 371, 400}
GridEntries == {Contribution(d, c) : d \in GridDates, c \in 0..MaxGridCount}
GridInputs  == SeqsUpTo(GridEntries, MaxGridContribs)

GridIdle ==
    /\ gContributions = <<>>
    /\ gridPc = "idle"
    /\ grid = ZeroGrid

\* Graph.Render calls g.buildGrid()
BuildGrid ==
    /\ gridPc = "start"
    /\ grid' = buildGrid(gContributions)
    /\ gridPc' = "done"
    /\ UNCHANGED <<gContributions, streakVars, warnVars, peakVars, appVars,
                   statsVars, fmtVars, rateVars, themeVars,
                   charVars, labelVars, repoVars, keyVars>>

-----------------------------------------------------------------------------
(* Responsive rendering *)

cellWidth        == 2
dayLabelWidth    == 4
minTerminalWidth == dayLabelWidth + (weeksToDisplay * cellWidth)

NegWidths == 4        \* terminal widths of the model are -NegWidths..MaxWidth
MaxWidth  == 120

\* fmt.Sprintf("%d", n)
FormatInt(n) == ToString(n)

\* The text of Graph.Render(): title, month labels, the 7 x 52 grid, legend.
\* Only what tells it from the warning box is kept: the number of week
\* columns it draws.
Render == [kind |-> "graph", columns |-> weeksToDisplay,
           message |-> "", detail |-> "", boxWidth |-> 0]

\* renderWidthWarning with the tiers taken on currentWidth, not on maxBoxWidth
renderWidthWarning_onCurrentWidth(currentWidth, minWidth) ==
    LET maxBoxWidth == currentWidth - 4
        message == "Increase terminal width to view contribution grid"
        detail  == "Need " \o FormatInt(minWidth) \o " columns, have "
                           \o FormatInt(currentWidth)
        tier == IF currentWidth < Len(message)
                THEN IF currentWidth < 30 THEN 1
                     ELSE IF currentWidth < 50 THEN 2
                     ELSE 3
                ELSE 3
    IN  [kind     |-> "warning",
         columns  |-> 0,
         message  |-> CASE tier = 1 -> "Terminal too narrow"
                        [] tier = 2 -> "Increase width for graph"
                        [] OTHER    -> message,
         detail   |-> IF tier = 3 THEN detail ELSE "",
         boxWidth |-> maxBoxWidth]

\* renderWidthWarning: the message and detail lines and the Width() of the box.
renderWidthWarning(currentWidth, minWidth) ==
    LET maxBoxWidth == currentWidth - 4
        message == "Increase terminal width to view contribution grid"
        detail  == "Need " \o FormatInt(minWidth) \o " columns, have "
                           \o FormatInt(currentWidth)
        tier == IF maxBoxWidth < Len(message)
                THEN IF maxBoxWidth < 30 THEN 1
                     ELSE IF maxBoxWidth < 50 THEN 2
                     ELSE 3
                ELSE 3
    IN  [kind     |-> "warning",
         columns  |-> 0,
         message  |-> CASE tier = 1 -> "Terminal too narrow"
                        [] tier = 2 -> "Increase width for graph"
                        [] OTHER    -> message,
         detail   |-> IF tier = 3 THEN detail ELSE "",
         boxWidth |-> maxBoxWidth]

\* RenderResponsive with <= for <
RenderResponsive_le(tw) ==
    IF tw <= minTerminalWidth
    THEN renderWidthWarning(tw, minTerminalWidth)
    ELSE Render

RenderResponsive(tw) ==
    IF tw < minTerminalWidth
    THEN renderWidthWarning(tw, minTerminalWidth)
    ELSE Render

WarnIdle ==
    /\ terminalWidth = 0
    /\ warnPc = "idle"
    /\ rendered = Render

CallRenderResponsive ==
    /\ warnPc = "start"
    /\ rendered' = RenderResponsive(terminalWidth)
    /\ warnPc' = "done"
    /\ UNCHANGED <<terminalWidth, streakVars, gridVars, peakVars, appVars,
                   statsVars, fmtVars, rateVars, themeVars,
                   charVars, labelVars, repoVars, keyVars>>

-----------------------------------------------------------------------------
(* Peak coding hour *)

MaxEvents == 3        \* longest activity list given to the analyzer

TimeWindows == {"ThisWeek", "ThisMonth", "ThisYear"}

\* type Activity struct { Type string; ...; Timestamp time.Time }
Activity(ty, ts) == [Type |-> ty, Timestamp |-> ts]

\* time.Time.Hour()
HourOf(ts) == ts % 24

\* now.AddDate(0, 0, -days), with no clock change in between
AddDays(t, days) == t + days * HoursPerDay

\* Cutoff with a month of 31 days
Cutoff_month31(w, t) ==
    CASE w = "ThisWeek"  -> AddDays(t, -7)
      [] w = "ThisMonth" -> AddDays(t, -31)
      [] w = "ThisYear"  -> AddDays(t, -365)

\* the switch on window that sets cutoff
Cutoff(w, t) ==
    CASE w = "ThisWeek"  -> AddDays(t, -7)
      [] w = "ThisMonth" -> AddDays(t, -30)
      [] w = "ThisYear"  -> AddDays(t, -365)

\* hourCounts[hour]++ on a Go map: a missing key reads as 0
Incr(hc, hour) ==
    IF hour \in DOMAIN hc
    THEN [hc EXCEPT ![hour] = @ + 1]
    ELSE [h \in (DOMAIN hc) \cup {hour} |-> IF h = hour THEN 1 ELSE hc[h]]

EmptyMap == [h \in {} |-> 0]

\* CountHours that also skips an event dated exactly at the cutoff
RECURSIVE CountHours_skipAtCutoff(_, _, _, _)
CountHours_skipAtCutoff(acts, i, cutoff, hc) ==
    IF i > Len(acts) THEN hc
    ELSE IF acts[i].Timestamp <= cutoff
         THEN CountHours_skipAtCutoff(acts, i + 1, cutoff, hc)
         ELSE CountHours_skipAtCutoff(acts, i + 1, cutoff,
                                      Incr(hc, HourOf(acts[i].Timestamp)))

\* the loop that counts the activities by hour, from index i to the end
RECURSIVE CountHours(_, _, _, _)
CountHours(acts, i, cutoff, hc) ==
    IF i > Len(acts) THEN hc
    ELSE IF acts[i].Timestamp < cutoff                \* Timestamp.Before(cutoff)
         THEN CountHours(acts, i + 1, cutoff, hc)     \* continue
         ELSE CountHours(acts, i + 1, cutoff, Incr(hc, HourOf(acts[i].Timestamp)))

Swap(hs, i, j) == [hs EXCEPT ![i] = hs[j], ![j] = hs[i]]

\* SortHours that leaves the hours in the order of the map iteration
SortHours_unsorted(hs, i, j) == hs

\* the two nested loops that sort hours ascending (i, j are 1-based)
RECURSIVE SortHours(_, _, _)
SortHours(hs, i, j) ==
    IF i > Len(hs) THEN hs
    ELSE IF j > Len(hs) THEN SortHours(hs, i + 1, i + 2)
    ELSE IF hs[i] > hs[j] THEN SortHours(Swap(hs, i, j), i, j + 1)
    ELSE SortHours(hs, i, j + 1)

\* the scan for the peak: returns <<maxCount, peakHour>>
RECURSIVE FindPeak(_, _, _, _, _)
FindPeak(hs, hc, k, maxCount, peakHour) ==
    IF k > Len(hs) THEN <<maxCount, peakHour>>
    ELSE IF hc[hs[k]] > maxCount
         THEN FindPeak(hs, hc, k + 1, hc[hs[k]], hs[k])
         ELSE FindPeak(hs, hc, k + 1, maxCount, peakHour)

\* strings.ToLower on the period names
ToLower(p) == CASE p = "AM" -> "am" [] p = "PM" -> "pm" [] OTHER -> p

formatHourRange(start, startPeriod, end, endPeriod) ==
    LET sp == ToLower(startPeriod)
        ep == ToLower(endPeriod)
    IN  IF sp = ep
        THEN FormatInt(start) \o "-" \o FormatInt(end) \o ep
        ELSE FormatInt(start) \o sp \o "-" \o FormatInt(end) \o ep

\* Display12 that leaves midnight at 0
Display12_zero(hour) ==
    LET period == IF hour >= 12 THEN "PM" ELSE "AM"
        d1     == IF hour > 12 THEN hour - 12 ELSE hour
    IN  <<d1, period>>

\* the conversion of an hour 0..23 to the 12-hour clock: <<display, period>>
Display12(hour) ==
    LET period == IF hour >= 12 THEN "PM" ELSE "AM"
        d1     == IF hour > 12 THEN hour - 12 ELSE hour
        d2     == IF d1 = 0 THEN 12 ELSE d1
    IN  <<d2, period>>

\* the formatting of the peak as a range
PeakLabel(maxCount, peakHour) ==
    IF maxCount = 0 THEN "No data"
    ELSE LET s == Display12(peakHour)
             e == Display12((peakHour + 1) % 24)
         IN  formatHourRange(s[1], s[2], e[1], e[2])

\* all orders in which a range over a map with key set K may run
Orders(K) == {o \in [1..Cardinality(K) -> K] : \A k \in K : \E i \in DOMAIN o : o[i] = k}

\* CalculatePeakCodingHour, given the order iter of the range over the map
CalculatePeakCodingHour(acts, w, t, iter) ==
    LET hc    == CountHours(acts, 1, Cutoff(w, t), EmptyMap)
        hours == SortHours(iter, 1, 2)
        peak  == FindPeak(hours, hc, 1, 0, 0)
    IN  <<PeakLabel(peak[1], peak[2]), hc>>

\* now is 01:00 of some day; the ages (in hours) put events inside and
\* outside each window and several events in one hour of day.
Nows        == {480001}
EventAges   == {1, 2, 3, 50, 168, 169, 721, 8761}
EventTypes  == {"PushEvent", "IssueEvent"}
PeakInputs(t) == SeqsUpTo({Activity(ty, t - a) : ty \in EventTypes, a \in EventAges}, MaxEvents)

PeakIdle ==
    /\ activities = <<>>
    /\ now = 0
    /\ window = "ThisWeek"
    /\ peakPc = "idle"
    /\ hoursIter = <<>>
    /\ peakString = ""
    /\ hourCounts = EmptyMap

\* renderActivityMetrics / CalculateActivityStats call CalculatePeakCodingHour
CallPeakCodingHour ==
    /\ peakPc = "start"
    /\ \E iter \in Orders(DOMAIN CountHours(activities, 1, Cutoff(window, now), EmptyMap)) :
          LET r == CalculatePeakCodingHour(activities, window, now, iter)
          IN  /\ hoursIter' = iter
              /\ peakString' = r[1]
              /\ hourCounts' = r[2]
    /\ peakPc' = "done"
    /\ UNCHANGED <<activities, now, window, streakVars, gridVars, warnVars, appVars,
                   statsVars, fmtVars, rateVars, themeVars,
                   charVars, labelVars, repoVars, keyVars>>

-----------------------------------------------------------------------------
(* The dashboard: Model, Init, Update, View *)

MaxBatches == 1       \* most fetch batches the r and p keys issue in a run
MaxPending == 5       \* most commands in flight at once

FetchKinds == {"profile", "contributions", "languages", "repositories", "activities"}

\* a command: what it fetches and the includePrivate it was built with
Fetch(kind, priv) == [kind |-> kind, priv |-> priv]
AllFetches        == {Fetch(k, p) : k \in FetchKinds \cup {"avatar"}, p \in BOOLEAN}

\* type loadingState struct
LoadingState(p, c, l, r, a, av) ==
    [profile |-> p, contributions |-> c, languages |-> l,
     repositories |-> r, activities |-> a, avatar |-> av]

isLoading(ls) ==
    ls.profile \/ ls.contributions \/ ls.languages \/ ls.repositories
        \/ ls.activities \/ ls.avatar

\* the batch of Init and of the r key
FetchAll(includePrivate) ==
    {Fetch("profile", includePrivate), Fetch("contributions", FALSE),
     Fetch("languages", includePrivate), Fetch("repositories", includePrivate),
     Fetch("activities", includePrivate)}

\* the batch of the p key
FetchToggled(includePrivate) ==
    {Fetch("profile", includePrivate), Fetch("languages", includePrivate),
     Fetch("repositories", includePrivate), Fetch("activities", includePrivate)}

\* the data a fetch returns, tagged with the includePrivate it was fetched with
Fetched(f) == IF f.priv THEN "private" ELSE "public"

NoPending == [f \in AllFetches |-> 0]

RECURSIVE SumOver(_, _)
SumOver(b, S) == IF S = {} THEN 0
                 ELSE LET f == CHOOSE x \in S : TRUE
                      IN  b[f] + SumOver(b, S \ {f})

PendingSize == SumOver(pending, AllFetches)
Issue(b, cmds) == [f \in AllFetches |-> IF f \in cmds THEN b[f] + 1 ELSE b[f]]
Deliver(b, f)  == [b EXCEPT ![f] = @ - 1]

Widths == {80, 108}

AppIdle ==
    /\ isOwnProfile = FALSE
    /\ publicOnly = FALSE
    /\ loading = LoadingState(FALSE, FALSE, FALSE, FALSE, FALSE, FALSE)
    /\ err = "nil"
    /\ profile = "nil"
    /\ graph = "nil"
    /\ languages = "nil"
    /\ repositories = "nil"
    /\ mActivities = "nil"
    /\ ready = FALSE
    /\ width = 0
    /\ pending = NoPending
    /\ batches = 0
    /\ quitting = FALSE

\* main builds the Model and tea.NewProgram runs Model.Init.  Init has a
\* value receiver: its assignment to m.loading is lost, the flags of the
\* model are those main set.
AppInit ==
    /\ isOwnProfile \in BOOLEAN
    /\ publicOnly = FALSE
    /\ loading = LoadingState(TRUE, TRUE, TRUE, FALSE, TRUE, FALSE)
    /\ err = "nil"
    /\ profile = "nil"
    /\ graph = "nil"
    /\ languages = "nil"
    /\ repositories = "nil"
    /\ mActivities = "nil"
    /\ ready = FALSE
    /\ width = 0
    /\ pending = Issue(NoPending, FetchAll(isOwnProfile /\ ~publicOnly))
    /\ batches = 0
    /\ quitting = FALSE

pureVars == <<streakVars, gridVars, warnVars, peakVars,
              statsVars, fmtVars, rateVars, themeVars,
              charVars, labelVars, repoVars, keyVars>>

\* case "q", "ctrl+c"
KeyQuit ==
    /\ ~quitting
    /\ quitting' = TRUE
    /\ UNCHANGED <<isOwnProfile, publicOnly, loading, err, profile,
                   graph, languages, repositories, mActivities, ready,
                   width, pending, batches, pureVars>>

\* any other key while loading: return m, nil
KeyWhileLoading ==
    /\ ~quitting
    /\ isLoading(loading)
    /\ UNCHANGED <<isOwnProfile, publicOnly, loading, err, profile,
                   graph, languages, repositories, mActivities, ready,
                   width, pending, quitting, batches, pureVars>>

\* a key with no case of its own while nothing loads: falls through to the
\* viewport, the model keeps its fields
KeyOther ==
    /\ ~quitting
    /\ ~isLoading(loading)
    /\ UNCHANGED <<isOwnProfile, publicOnly, loading, err, profile,
                   graph, languages, repositories, mActivities, ready,
                   width, pending, quitting, batches, pureVars>>

\* KeyRefresh that also forgets the error
KeyRefresh_clearsErr ==
    /\ ~quitting
    /\ ~isLoading(loading)
    /\ batches < MaxBatches
    /\ PendingSize + 5 <= MaxPending
    /\ batches' = batches + 1
    /\ err' = "nil"
    /\ loading' = LoadingState(TRUE, TRUE, TRUE, TRUE, TRUE, FALSE)
    /\ LET includePrivate == isOwnProfile /\ ~publicOnly
       IN  pending' = Issue(pending, FetchAll(includePrivate))
    /\ UNCHANGED <<isOwnProfile, publicOnly, profile,
                   graph, languages, repositories, mActivities, ready,
                   width, quitting, pureVars>>

\* case "r"
KeyRefresh ==
    /\ ~quitting
    /\ ~isLoading(loading)
    /\ batches < MaxBatches
    /\ PendingSize + 5 <= MaxPending
    /\ batches' = batches + 1
    /\ loading' = LoadingState(TRUE, TRUE, TRUE, TRUE, TRUE, FALSE)
    /\ LET includePrivate == isOwnProfile /\ ~publicOnly
       IN  pending' = Issue(pending, FetchAll(includePrivate))
    /\ UNCHANGED <<isOwnProfile, publicOnly, err, profile,
                   graph, languages, repositories, mActivities, ready,
                   width, quitting, pureVars>>

\* KeyTogglePublic without the test of isOwnProfile
KeyTogglePublic_anyProfile ==
    /\ ~quitting
    /\ ~isLoading(loading)
    /\ batches < MaxBatches
    /\ PendingSize + 4 <= MaxPending
    /\ batches' = batches + 1
    /\ publicOnly' = ~publicOnly
    /\ loading' = LoadingState(TRUE, FALSE, TRUE, TRUE, TRUE, FALSE)
    /\ LET includePrivate == ~publicOnly'
       IN  pending' = Issue(pending, FetchToggled(includePrivate))
    /\ UNCHANGED <<isOwnProfile, err, profile,
                   graph, languages, repositories, mActivities, ready,
                   width, quitting, pureVars>>

\* case "p", "P"
KeyTogglePublic ==
    /\ ~quitting
    /\ ~isLoading(loading)
    /\ IF ~isOwnProfile
       THEN UNCHANGED <<publicOnly, loading, pending, batches>>
       ELSE /\ batches < MaxBatches
            /\ PendingSize + 4 <= MaxPending
            /\ batches' = batches + 1
            /\ publicOnly' = ~publicOnly
            /\ loading' = LoadingState(TRUE, FALSE, TRUE, TRUE, TRUE, FALSE)
            /\ LET includePrivate == ~publicOnly'
               IN  pending' = Issue(pending, FetchToggled(includePrivate))
    /\ UNCHANGED <<isOwnProfile, err, profile,
                   graph, languages, repositories, mActivities, ready,
                   width, quitting, pureVars>>

\* case tea.WindowSizeMsg
WindowSize ==
    /\ ~quitting
    /\ \E w \in Widths : width' = w
    /\ ready' = TRUE
    /\ UNCHANGED <<isOwnProfile, publicOnly, loading, err, profile,
                   graph, languages, repositories, mActivities,
                   pending, quitting, batches, pureVars>>

\* case profileMsg; the profile may or may not carry an avatar URL
RecvProfile ==
    /\ ~quitting
    /\ \E f \in AllFetches, hasAvatar \in BOOLEAN :
          /\ f.kind = "profile" /\ pending[f] > 0
          /\ profile' = Fetched(f)
          /\ loading' = [loading EXCEPT !.profile = FALSE]
          /\ pending' = IF hasAvatar
                        THEN Issue(Deliver(pending, f), {Fetch("avatar", FALSE)})
                        ELSE Deliver(pending, f)
    /\ UNCHANGED <<isOwnProfile, publicOnly, err,
                   graph, languages, repositories, mActivities, ready,
                   width, quitting, batches, pureVars>>

\* case contributionsMsg
RecvContributions ==
    /\ ~quitting
    /\ \E f \in AllFetches :
          /\ f.kind = "contributions" /\ pending[f] > 0
          /\ pending' = Deliver(pending, f)
    /\ graph' = "graph"
    /\ loading' = [loading EXCEPT !.contributions = FALSE]
    /\ UNCHANGED <<isOwnProfile, publicOnly, err, profile,
                   languages, repositories, mActivities, ready,
                   width, quitting, batches, pureVars>>

\* case languagesMsg
RecvLanguages ==
    /\ ~quitting
    /\ \E f \in AllFetches :
          /\ f.kind = "languages" /\ pending[f] > 0
          /\ pending' = Deliver(pending, f)
          /\ languages' = Fetched(f)
    /\ loading' = [loading EXCEPT !.languages = FALSE]
    /\ UNCHANGED <<isOwnProfile, publicOnly, err, profile,
                   graph, repositories, mActivities, ready,
                   width, quitting, batches, pureVars>>

\* RecvRepositories that leaves the flag of the repositories set
RecvRepositories_keepsFlag ==
    /\ ~quitting
    /\ \E f \in AllFetches :
          /\ f.kind = "repositories" /\ pending[f] > 0
          /\ pending' = Deliver(pending, f)
          /\ repositories' = Fetched(f)
    /\ UNCHANGED <<isOwnProfile, publicOnly, err, profile, loading,
                   graph, languages, mActivities, ready,
                   width, quitting, batches, pureVars>>

\* case repositoriesMsg
RecvRepositories ==
    /\ ~quitting
    /\ \E f \in AllFetches :
          /\ f.kind = "repositories" /\ pending[f] > 0
          /\ pending' = Deliver(pending, f)
          /\ repositories' = Fetched(f)
    /\ loading' = [loading EXCEPT !.repositories = FALSE]
    /\ UNCHANGED <<isOwnProfile, publicOnly, err, profile,
                   graph, languages, mActivities, ready,
                   width, quitting, batches, pureVars>>

\* case activitiesMsg
RecvActivities ==
    /\ ~quitting
    /\ \E f \in AllFetches :
          /\ f.kind = "activities" /\ pending[f] > 0
          /\ pending' = Deliver(pending, f)
          /\ mActivities' = Fetched(f)
    /\ loading' = [loading EXCEPT !.activities = FALSE]
    /\ UNCHANGED <<isOwnProfile, publicOnly, err, profile,
                   graph, languages, repositories, ready,
                   width, quitting, batches, pureVars>>

\* case avatarMsg (fetchAvatar never returns an errMsg)
RecvAvatar ==
    /\ ~quitting
    /\ \E f \in AllFetches :
          /\ f.kind = "avatar" /\ pending[f] > 0
          /\ pending' = Deliver(pending, f)
    /\ loading' = [loading EXCEPT !.avatar = FALSE]
    /\ UNCHANGED <<isOwnProfile, publicOnly, err, profile,
                   graph, languages, repositories, mActivities, ready,
                   width, quitting, batches, pureVars>>

\* case errMsg: one of the five data fetches failed
RecvErr ==
    /\ ~quitting
    /\ \E f \in AllFetches :
          /\ f.kind \in FetchKinds /\ pending[f] > 0
          /\ pending' = Deliver(pending, f)
    /\ err' = "err"
    /\ loading' = LoadingState(FALSE, FALSE, FALSE, FALSE, FALSE, FALSE)
    /\ UNCHANGED <<isOwnProfile, publicOnly, profile,
                   graph, languages, repositories, mActivities, ready,
                   width, quitting, batches, pureVars>>

\* Model.renderGraphSection
renderGraphSection(w) ==
    IF graph = "nil"
    THEN [kind |-> "placeholder", columns |-> 0,
          message |-> "Loading contributions...", detail |-> "", boxWidth |-> 0]
    ELSE Render

NoSection == [kind |-> "none", columns |-> 0, message |-> "", detail |-> "", boxWidth |-> 0]

\* Model.View: which screen is shown and, on the dashboard, its graph section
View ==
    IF err # "nil" THEN [screen |-> "error", graphSection |-> NoSection]
    ELSE IF isLoading(loading) \/ profile = "nil"
    THEN [screen |-> "loading", graphSection |-> NoSection]
    ELSE [screen |-> "dashboard", graphSection |-> renderGraphSection(width)]

-----------------------------------------------------------------------------
(* Summary statistics and intensity levels *)

MaxStatLen    == 3    \* longest contribution sequence given to CalculateStats
MaxStatCount  == 3    \* its counts are 0..MaxStatCount
MaxLevelCount == 12   \* getContributionLevel is called on 0..MaxLevelCount and on 1000

\* type Stats struct
Stats(total, activeDays, totalDays, averageDay, maxDay) ==
    [Total |-> total, ActiveDays |-> activeDays, TotalDays |-> totalDays,
     AverageDay |-> averageDay, MaxDay |-> maxDay]

\* the range loop of CalculateStats, from index i to the end
RECURSIVE StatsLoop(_, _, _)
StatsLoop(cs, i, st) ==
    IF i > Len(cs) THEN st
    ELSE LET c == cs[i].Count
         IN  StatsLoop(cs, i + 1,
                [st EXCEPT !.Total      = @ + c,
                           !.ActiveDays = IF c > 0 THEN @ + 1 ELSE @,
                           !.MaxDay     = IF c > @ THEN c ELSE @])

\* CalculateStats that averages over the active days only
CalculateStats_activeAverage(cs) ==
    LET st == StatsLoop(cs, 1, Stats(0, 0, Len(cs), 0, 0))
    IN  IF st.ActiveDays > 0
        THEN [st EXCEPT !.AverageDay = GoDiv(st.Total, st.ActiveDays)]
        ELSE st

CalculateStats(cs) ==
    LET st == StatsLoop(cs, 1, Stats(0, 0, Len(cs), 0, 0))
    IN  IF st.TotalDays > 0
        THEN [st EXCEPT !.AverageDay = GoDiv(st.Total, st.TotalDays)]
        ELSE st

\* getContributionLevel with the first threshold one too high
getContributionLevel_shifted(count) ==
    CASE count = 0  -> 0
      [] count <= 4 -> 1
      [] count <= 6 -> 2
      [] count <= 9 -> 3
      [] OTHER      -> 4

\* the switch of getContributionLevel: the first case that holds is taken
getContributionLevel(count) ==
    IF count = 0 THEN 0
    ELSE IF count <= 3 THEN 1
    ELSE IF count <= 6 THEN 2
    ELSE IF count <= 9 THEN 3
    ELSE 4

\* one entry per day, as the contribution calendar delivers them
StatsInputs ==
    {[i \in 1..Len(counts) |-> Contribution(i, counts[i])] :
        counts \in SeqsUpTo(0..MaxStatCount, MaxStatLen)}
LevelInputs == (0..MaxLevelCount) \cup {1000}

StatsIdle ==
    /\ sContributions = <<>>
    /\ levelCount = 0
    /\ statsPc = {}
    /\ stats = Stats(0, 0, 0, 0, 0)
    /\ level = 0

\* renderStreaks: stats := CalculateStats(m.contributions)
CallCalculateStats ==
    /\ "stats" \notin statsPc
    /\ stats' = CalculateStats(sContributions)
    /\ statsPc' = statsPc \cup {"stats"}
    /\ UNCHANGED <<sContributions, levelCount, level, streakVars, gridVars,
                   warnVars, peakVars, appVars, fmtVars, rateVars, themeVars,
                   charVars, labelVars, repoVars, keyVars>>

\* renderCell: level := getContributionLevel(count)
CallGetContributionLevel ==
    /\ "level" \notin statsPc
    /\ level' = getContributionLevel(levelCount)
    /\ statsPc' = statsPc \cup {"level"}
    /\ UNCHANGED <<sContributions, levelCount, stats, streakVars, gridVars,
                   warnVars, peakVars, appVars, fmtVars, rateVars, themeVars,
                   charVars, labelVars, repoVars, keyVars>>

-----------------------------------------------------------------------------
(* Hour range label *)

Periods == {"AM", "PM", "am", "pm"}

FmtIdle ==
    /\ fStart = 0
    /\ fStartPeriod = ""
    /\ fEnd = 0
    /\ fEndPeriod = ""
    /\ fmtPc = "idle"
    /\ fmtResult = ""

\* a call of formatHourRange, as TestFormatHourRange makes it
CallFormatHourRange ==
    /\ fmtPc = "start"
    /\ fmtResult' = formatHourRange(fStart, fStartPeriod, fEnd, fEndPeriod)
    /\ fmtPc' = "done"
    /\ UNCHANGED <<fStart, fStartPeriod, fEnd, fEndPeriod, streakVars, gridVars,
                   warnVars, peakVars, appVars, statsVars, rateVars, themeVars,
                   charVars, labelVars, repoVars, keyVars>>

-----------------------------------------------------------------------------
(* Push rate *)

(* A float64 is its 53-bit significand, most significant bit first, and   *)
(* the exponent of its last bit: the value is m * 2^e.  The push rates are *)
(* far from the subnormal and the overflow range.  Arithmetic is IEEE 754  *)
(* round-to-nearest, ties-to-even, on the exact result.                    *)

MantissaBits == 53

MaxPushes == 29       \* most recent push events in a list given to CalculatePushRate
MaxExtras == 1        \* most other events in that list

FZero == [m |-> <<>>, e |-> 0]

Zeros(k) == [i \in 1..k |-> 0]

\* the binary digits of n >= 0, most significant first (none for 0)
RECURSIVE Bits(_)
Bits(n) == IF n = 0 THEN <<>> ELSE Append(Bits(n \div 2), n % 2)

StripZeros(bits) ==
    IF \A i \in DOMAIN bits : bits[i] = 0 THEN <<>>
    ELSE LET k == CHOOSE k \in DOMAIN bits :
                      bits[k] = 1 /\ \A j \in 1..(k - 1) : bits[j] = 0
         IN  SubSeq(bits, k, Len(bits))

\* Round that truncates instead of rounding to nearest
Round_truncate(bits, e, sticky) ==
    LET L == Len(bits)
    IN  IF L <= MantissaBits
        THEN [m |-> bits \o Zeros(MantissaBits - L), e |-> e - (MantissaBits - L)]
        ELSE [m |-> SubSeq(bits, 1, MantissaBits), e |-> e + (L - MantissaBits)]

\* the float64 nearest to bits * 2^e (bits starts with 1; sticky says that
\* the exact value is a little above bits * 2^e)
Round(bits, e, sticky) ==
    LET L == Len(bits)
    IN  IF L <= MantissaBits
        THEN [m |-> bits \o Zeros(MantissaBits - L), e |-> e - (MantissaBits - L)]
        ELSE LET kept  == SubSeq(bits, 1, MantissaBits)
                 guard == bits[MantissaBits + 1]
                 rest  == sticky \/ \E i \in (MantissaBits + 2)..L : bits[i] = 1
                 up    == guard = 1 /\ (rest \/ kept[MantissaBits] = 1)
                 e1    == e + (L - MantissaBits)
             IN  IF ~up THEN [m |-> kept, e |-> e1]
                 ELSE IF \A i \in 1..MantissaBits : kept[i] = 1
                 THEN [m |-> <<1>> \o Zeros(MantissaBits - 1), e |-> e1 + 1]
                 ELSE LET k == CHOOSE k \in 1..MantissaBits :
                                   /\ kept[k] = 0
                                   /\ \A j \in (k + 1)..MantissaBits : kept[j] = 1
                      IN  [m |-> [i \in 1..MantissaBits |->
                                     IF i < k THEN kept[i]
                                     ELSE IF i = k THEN 1 ELSE 0],
                           e |-> e1]

\* float64(n) for an int n >= 0 below 2^53
FromInt(n) == IF n = 0 THEN FZero ELSE Round(Bits(n), 0, FALSE)

\* long division of bits by d: the remainder after the digits a..b, entered
\* with remainder rem < d (the digit range is halved, the two halves chained)
RECURSIVE RemAfter(_, _, _, _, _)
RemAfter(bits, d, a, b, rem) ==
    IF a > b THEN rem
    ELSE IF a = b THEN (2 * rem + bits[a]) % d
    ELSE LET mid  == (a + b) \div 2
             left == RemAfter(bits, d, a, mid, rem)
         IN  IF left < d THEN RemAfter(bits, d, mid + 1, b, left) ELSE left

\* the quotient digits of bits by d
Quotient(bits, d) ==
    [i \in 1..Len(bits) |-> (2 * RemAfter(bits, d, 1, i - 1, 0) + bits[i]) \div d]

\* x / d on float64, d a whole number below 32 (7.0, 24.0), x # 0
\* (8 zero digits are appended to the dividend: the quotient by a divisor
\* below 32 then has more than MantissaBits + 1 digits)
FDiv(x, d) ==
    LET guard    == 8
        dividend == x.m \o Zeros(guard)
    IN  Round(StripZeros(Quotient(dividend, d)), x.e - guard,
              RemAfter(dividend, d, 1, Len(dividend), 0) # 0)

\* bits times k: the carry after the digits b down to a, entered with carry < k
RECURSIVE CarryAfter(_, _, _, _, _)
CarryAfter(bits, k, a, b, carry) ==
    IF a > b THEN carry
    ELSE IF a = b THEN (k * bits[a] + carry) \div 2
    ELSE LET mid   == (a + b) \div 2
             right == CarryAfter(bits, k, mid + 1, b, carry)
         IN  IF right < k THEN CarryAfter(bits, k, a, mid, right) ELSE right

\* the digits of bits times k
Product(bits, k) ==
    Bits(CarryAfter(bits, k, 1, Len(bits), 0)) \o
    [i \in 1..Len(bits) |-> (k * bits[i] + CarryAfter(bits, k, i + 1, Len(bits), 0)) % 2]

\* x * k on float64, k a small whole number (7.0, 30.0), x # 0
FMul(x, k) == Round(Product(x.m, k), x.e, FALSE)

\* type PushGranularity string
PushPerHour  == "hour"
PushPerDay   == "day"
PushPerWeek  == "week"
PushPerMonth == "month"
PushGranularities == {PushPerHour, PushPerDay, PushPerWeek, PushPerMonth}

\* CountPushes that counts every event of the last 7 days, whatever its type
RECURSIVE CountPushes_anyType(_, _, _, _)
CountPushes_anyType(acts, i, sevenDaysAgo, pushCount) ==
    IF i > Len(acts) THEN pushCount
    ELSE IF acts[i].Timestamp > sevenDaysAgo
         THEN CountPushes_anyType(acts, i + 1, sevenDaysAgo, pushCount + 1)
         ELSE CountPushes_anyType(acts, i + 1, sevenDaysAgo, pushCount)

\* the loop that counts the push events of the last 7 days
RECURSIVE CountPushes(_, _, _, _)
CountPushes(acts, i, sevenDaysAgo, pushCount) ==
    IF i > Len(acts) THEN pushCount
    ELSE IF acts[i].Type = "PushEvent"
              /\ acts[i].Timestamp > sevenDaysAgo     \* Timestamp.After(sevenDaysAgo)
         THEN CountPushes(acts, i + 1, sevenDaysAgo, pushCount + 1)
         ELSE CountPushes(acts, i + 1, sevenDaysAgo, pushCount)

\* CalculatePushRate, t being the time.Now() it reads
CalculatePushRate(acts, g, t) ==
    LET sevenDaysAgo == AddDays(t, -7)
        pushCount    == CountPushes(acts, 1, sevenDaysAgo, 0)
    IN  IF pushCount = 0 THEN FZero
        ELSE LET dailyAverage == FDiv(FromInt(pushCount), 7)
             IN  CASE g = PushPerHour  -> FDiv(dailyAverage, 24)
                   [] g = PushPerDay   -> dailyAverage
                   [] g = PushPerWeek  -> FMul(dailyAverage, 7)
                   [] g = PushPerMonth -> FMul(dailyAverage, 30)
                   [] OTHER            -> dailyAverage

\* k push events of the last 7 days, then or before them up to MaxExtras
\* events that the count has to leave out: another type, or 7 days old and older
PushAges == <<1, 50, 167>>
RecentPushes(k, t) == [i \in 1..k |-> Activity("PushEvent", t - PushAges[(i % 3) + 1])]
ExtraEvents(t) == {Activity("IssueEvent", t - 1), Activity("PullRequestEvent", t - 167),
                   Activity("PushEvent", t - 168), Activity("PushEvent", t - 169)}
RateInputs(t) ==
    UNION {{x \o RecentPushes(k, t), RecentPushes(k, t) \o x} :
              k \in 0..MaxPushes, x \in SeqsUpTo(ExtraEvents(t), MaxExtras)}

RateIdle ==
    /\ rActivities = <<>>
    /\ rNow = 0
    /\ granularity = PushPerDay
    /\ ratePc = "idle"
    /\ pushRate = FZero

\* CalculatePushStats / CalculateActivityStats call CalculatePushRate
CallPushRate ==
    /\ ratePc = "start"
    /\ pushRate' = CalculatePushRate(rActivities, granularity, rNow)
    /\ ratePc' = "done"
    /\ UNCHANGED <<rActivities, rNow, granularity, streakVars, gridVars,
                   warnVars, peakVars, appVars, statsVars, fmtVars, themeVars,
                   charVars, labelVars, repoVars, keyVars>>

-----------------------------------------------------------------------------
(* Theme system *)

MaxPresses == 6       \* most presses of the t key in a run

\* every theme name of the model, in the order of sort.Strings (byte order)
ThemeNames == <<"Ayu", "Dracula", "Nord", "Zenburn",
                "ayu", "dracula", "github-dark", "nord", "zenburn">>

builtInThemes  == <<"github-dark", "dracula", "nord">>
ExternalThemes == {"ayu", "zenburn"}              \* YAML files of the themes directory
GoghThemes     == {"Ayu", "Dracula", "Nord", "Zenburn"}
EnvThemes      == {"", "bogus", "Ayu", "Dracula", "Nord", "Zenburn",
                   "ayu", "dracula", "github-dark", "nord", "zenburn"}

Range(s) == {s[i] : i \in DOMAIN s}

\* type Theme struct: the palette registered under a name
Theme(name) == [Background |-> "bg of " \o name, Foreground |-> "fg of " \o name]

\* sort.Strings on a set of names
SortStrings(S) == SelectSeq(ThemeNames, LAMBDA n : n \in S)

\* the registry with the themes of set S
Registry(S) == [n \in S |-> Theme(n)]

\* InitTheme of the built-in theme system, GITTUI_THEME being env and the
\* themes directory holding the themes ext
InitBuiltInThemes(env, ext) ==
    LET names     == Range(builtInThemes) \cup ext
        wanted    == IF env = "" THEN "github-dark" ELSE env
        themeName == IF wanted \in names THEN wanted ELSE "github-dark"
    IN  /\ themes = Registry(names)
        /\ themeOrder = builtInThemes \o SortStrings(names \ Range(builtInThemes))
        /\ currentThemeName = themeName
        /\ CurrentTheme = themes[themeName]

\* InitTheme of the gogh theme system, the package delivering the themes all
InitGoghThemes(env, all) ==
    LET wanted    == IF env = "" THEN "Dracula" ELSE env
        order     == SortStrings(all)
        themeName == IF wanted \in all THEN wanted ELSE order[1]
    IN  /\ themes = Registry(all)
        /\ themeOrder = order
        /\ currentThemeName = themeName
        /\ CurrentTheme = themes[themeName]

\* the loop of NextTheme that finds the index of the current theme (from 0)
CurrentIndex(order, name) ==
    IF \E i \in DOMAIN order : order[i] = name
    THEN (CHOOSE i \in DOMAIN order :
              order[i] = name /\ \A j \in 1..(i - 1) : order[j] # name) - 1
    ELSE 0

\* NextIndex that stops at the last theme
NextIndex_noWrap(currentIndex, n) ==
    IF currentIndex + 1 < n THEN currentIndex + 1 ELSE currentIndex

\* nextIndex := (currentIndex + 1) % len(themeOrder)
NextIndex(currentIndex, n) == (currentIndex + 1) % n

\* the name NextTheme moves to
NextThemeName ==
    themeOrder[NextIndex(CurrentIndex(themeOrder, currentThemeName), Len(themeOrder)) + 1]

ThemeIdle ==
    /\ themes = Registry({})
    /\ themeOrder = <<>>
    /\ currentThemeName = ""
    /\ CurrentTheme = Theme("")
    /\ startTheme = ""
    /\ tPresses = 0
    /\ visited = <<>>

\* the model once the results of the first batch and a WindowSizeMsg have
\* arrived (the profile carrying no avatar URL)
AppLoaded ==
    /\ isOwnProfile \in BOOLEAN
    /\ publicOnly = FALSE
    /\ loading = LoadingState(FALSE, FALSE, FALSE, FALSE, FALSE, FALSE)
    /\ err = "nil"
    /\ profile = Fetched(Fetch("profile", isOwnProfile))
    /\ graph = "graph"
    /\ languages = Fetched(Fetch("languages", isOwnProfile))
    /\ repositories = Fetched(Fetch("repositories", isOwnProfile))
    /\ mActivities = Fetched(Fetch("activities", isOwnProfile))
    /\ ready = TRUE
    /\ width = 108
    /\ pending = NoPending
    /\ batches = 0
    /\ quitting = FALSE

\* KeyTheme that handles the key while data is loading too
KeyTheme_whileLoading ==
    /\ ~quitting
    /\ tPresses < MaxPresses
    /\ tPresses' = tPresses + 1
    /\ currentThemeName' = NextThemeName
    /\ CurrentTheme' = themes[NextThemeName]
    /\ visited' = Append(visited, NextThemeName)
    /\ UNCHANGED <<themes, themeOrder, startTheme, streakVars, gridVars, warnVars,
                   peakVars, appVars, statsVars, fmtVars, rateVars,
                   charVars, labelVars, repoVars, keyVars>>

\* Update on the key "t" or "T": ignored while anything is loading,
\* otherwise NextTheme() (the styles and the viewport follow CurrentTheme)
KeyTheme ==
    /\ ~quitting
    /\ tPresses < MaxPresses
    /\ tPresses' = tPresses + 1
    /\ IF isLoading(loading)
       THEN UNCHANGED <<currentThemeName, CurrentTheme, visited>>
       ELSE /\ currentThemeName' = NextThemeName
            /\ CurrentTheme' = themes[NextThemeName]
            /\ visited' = Append(visited, NextThemeName)
    /\ UNCHANGED <<themes, themeOrder, startTheme, streakVars, gridVars, warnVars,
                   peakVars, appVars, statsVars, fmtVars, rateVars,
                   charVars, labelVars, repoVars, keyVars>>

-----------------------------------------------------------------------------
(* ASCII font *)

MaxRune == 127        \* the runes given to getCharIndex are 0..MaxRune

\* A rune is its code point: 'A' = 65, 'Z' = 90, '0' = 48, '9' = 57,
\* '@' = 64, ' ' = 32, 'a' = 97, 'z' = 122.

\* getCharIndex that folds the lower-case letters onto the upper-case ones
getCharIndex_foldCase(c) ==
    CASE c >= 65 /\ c <= 90  -> c - 65
      [] c >= 97 /\ c <= 122 -> c - 97
      [] c >= 48 /\ c <= 57  -> 26 + (c - 48)
      [] c = 64              -> 36
      [] c = 32              -> 37
      [] OTHER               -> 0 - 1

\* switch: the first case that holds returns
getCharIndex(c) ==
    IF c >= 65 /\ c <= 90 THEN c - 65
    ELSE IF c >= 48 /\ c <= 57 THEN 26 + (c - 48)
    ELSE IF c = 64 THEN 36
    ELSE IF c = 32 THEN 37
    ELSE 0 - 1

Runes == 0..MaxRune

CharIdle ==
    /\ char = 0
    /\ charPc = "idle"
    /\ charIndex = 0

\* RenderASCII calls getCharIndex on every rune of its text
CallGetCharIndex ==
    /\ charPc = "start"
    /\ charIndex' = getCharIndex(char)
    /\ charPc' = "done"
    /\ UNCHANGED <<char, streakVars, gridVars, warnVars, peakVars, appVars,
                   statsVars, fmtVars, rateVars, themeVars,
                   labelVars, repoVars, keyVars>>

-----------------------------------------------------------------------------
(* Month labels *)

(* The civil calendar behind the day numbers: day 0 is Sunday 1 January    *)
(* 2023.  time.Time.Month() and AddDate follow the proleptic Gregorian     *)
(* calendar.                                                               *)

MaxFirstDate == 400   \* the first contribution is dated 0..MaxFirstDate

IsLeap(y) == y % 4 = 0 /\ (y % 100 # 0 \/ y % 400 = 0)

DaysInMonth(y, m) ==
    CASE m = 2               -> IF IsLeap(y) THEN 29 ELSE 28
      [] m \in {4, 6, 9, 11} -> 30
      [] OTHER               -> 31

\* the month of the day that lies d days after the first of month m of year y
RECURSIVE MonthFrom(_, _, _)
MonthFrom(y, m, d) ==
    IF d < DaysInMonth(y, m) THEN m
    ELSE IF m = 12 THEN MonthFrom(y + 1, 1, d - DaysInMonth(y, m))
    ELSE MonthFrom(y, m + 1, d - DaysInMonth(y, m))

\* time.Time.Month() of a date, January = 1
Month(d) == MonthFrom(2023, 1, d)

\* months := []string{"Jan", ...}: each name as its three characters
months == << <<"J", "a", "n">>, <<"F", "e", "b">>, <<"M", "a", "r">>,
             <<"A", "p", "r">>, <<"M", "a", "y">>, <<"J", "u", "n">>,
             <<"J", "u", "l">>, <<"A", "u", "g">>, <<"S", "e", "p">>,
             <<"O", "c", "t">>, <<"N", "o", "v">>, <<"D", "e", "c">> >>

\* the number of iterations of
\* for startDate.Weekday() != time.Sunday { startDate = startDate.AddDate(0, 0, -1) }
RECURSIVE WalkSteps(_)
WalkSteps(startDate) ==
    IF Weekday(startDate) # 0 THEN 1 + WalkSteps(startDate - 1) ELSE 0

\* labelChars := make([]rune, totalWidth), filled with ' '
BlankRow == [p \in 0..(weeksToDisplay * cellWidth - 1) |-> " "]

\* Stamp that writes the first two letters only
Stamp_twoLetters(labelChars, pos, monthName) ==
    [p \in DOMAIN labelChars |->
        IF p - pos \in 0..1 THEN monthName[p - pos + 1] ELSE labelChars[p]]

\* for i, ch := range monthName { if pos+i < len(labelChars) { labelChars[pos+i] = ch } }
Stamp(labelChars, pos, monthName) ==
    [p \in DOMAIN labelChars |->
        IF p - pos \in 0..(Len(monthName) - 1)
        THEN monthName[p - pos + 1] ELSE labelChars[p]]

\* The loop over the week columns from column week on, with the loop's
\* local currentMonth.
RECURSIVE StampLoop(_, _, _, _)
StampLoop(week, labelChars, currentMonth, startDate) ==
    IF week >= weeksToDisplay THEN labelChars
    ELSE LET weekStart == startDate + week * 7
             month     == Month(weekStart) - 1
         IN  IF month # currentMonth
             THEN StampLoop(week + 1,
                            Stamp(labelChars, week * cellWidth, months[month + 1]),
                            month, startDate)
             ELSE StampLoop(week + 1, labelChars, currentMonth, startDate)

\* Graph.renderMonthLabels: the label characters (the colour and the four
\* leading spaces of the day-label column left aside); <<>> is the empty string
renderMonthLabels(cs) ==
    IF Len(cs) = 0 THEN <<>>
    ELSE StampLoop(0, BlankRow, 0 - 1, SundayOnOrBefore(cs[1].Date))

LabelInputs ==
    {[i \in 1..n |-> Contribution(d + i - 1, 1)] : d \in 0..MaxFirstDate, n \in 0..2}

LabelIdle ==
    /\ lContributions = <<>>
    /\ labelPc = "idle"
    /\ anchorDate = 0
    /\ walkSteps = 0
    /\ labelRow = <<>>

\* Graph.Render calls g.renderMonthLabels(), which walks back to the anchor
\* as buildGrid does
RenderMonthLabels ==
    /\ labelPc = "start"
    /\ IF Len(lContributions) = 0
       THEN UNCHANGED <<anchorDate, walkSteps>>
       ELSE /\ anchorDate' = SundayOnOrBefore(lContributions[1].Date)
            /\ walkSteps' = WalkSteps(lContributions[1].Date)
    /\ labelRow' = renderMonthLabels(lContributions)
    /\ labelPc' = "done"
    /\ UNCHANGED <<lContributions, streakVars, gridVars, warnVars, peakVars, appVars,
                   statsVars, fmtVars, rateVars, themeVars,
                   charVars, repoVars, keyVars>>

-----------------------------------------------------------------------------
(* Top repositories column *)

MaxViewWidth == 120   \* terminal widths of the dashboard are 0..MaxViewWidth
MaxNameLen   == 24    \* repository names are 0..MaxNameLen bytes long

\* View: statsWidth is availableWidth, at most maxGraphWidth = 4 + (52 * 2)
StatsWidth(w) == IF w > minTerminalWidth THEN minTerminalWidth ELSE w

\* renderStatsRow: the width of each of the four columns
ColWidth(w) ==
    LET hPadding       == IF w < 80 THEN 1 ELSE 2
        availableWidth == w - (hPadding * 3)
    IN  GoDiv(availableWidth, 4)

\* repoName[:bound] on a name of n bytes: a bound outside 0..n panics
Slice(n, bound) ==
    IF bound < 0 \/ bound > n
    THEN [panic |-> TRUE, kept |-> 0, ellipsis |-> FALSE]
    ELSE [panic |-> FALSE, kept |-> bound, ellipsis |-> TRUE]

\* renderTopRepos: the line of one repository name of n bytes in a column of
\* the given width (hMargin is 1)
TruncateName(n, colWidth) ==
    LET hMargin == 1 IN
    IF n > colWidth - hMargin - 5
    THEN Slice(n, colWidth - hMargin - 8)
    ELSE [panic |-> FALSE, kept |-> n, ellipsis |-> FALSE]

RepoIdle ==
    /\ viewWidth = 0
    /\ repoName = 0
    /\ repoPc = "idle"
    /\ repoLine = <<>>

\* View on the dashboard: renderStatsRow(statsWidth) calls
\* renderTopRepos(colWidth), which truncates each repository name
ViewTopRepos ==
    /\ repoPc = "start"
    /\ repoLine' = TruncateName(repoName, ColWidth(StatsWidth(viewWidth)))
    /\ repoPc' = "done"
    /\ UNCHANGED <<viewWidth, repoName, streakVars, gridVars, warnVars, peakVars,
                   appVars, statsVars, fmtVars, rateVars, themeVars,
                   charVars, labelVars, keyVars>>

-----------------------------------------------------------------------------
(* Push granularity *)

\* the switch on m.pushGranularity of case "g", "G"
NextGranularity(g) ==
    CASE g = PushPerHour  -> PushPerDay
      [] g = PushPerDay   -> PushPerWeek
      [] g = PushPerWeek  -> PushPerMonth
      [] g = PushPerMonth -> PushPerHour
      [] OTHER            -> PushPerDay

\* main: pushGranularity: PushPerDay
KeyIdle == pushGranularity = PushPerDay

\* KeyGranularity that handles the key while data is loading too
KeyGranularity_whileLoading ==
    /\ ~quitting
    /\ pushGranularity' = NextGranularity(pushGranularity)
    /\ UNCHANGED <<streakVars, gridVars, warnVars, peakVars, appVars,
                   statsVars, fmtVars, rateVars, themeVars,
                   charVars, labelVars, repoVars>>

\* Update on the key "g" or "G": ignored while anything is loading,
\* otherwise the next granularity
KeyGranularity ==
    /\ ~quitting
    /\ IF isLoading(loading)
       THEN UNCHANGED pushGranularity
       ELSE pushGranularity' = NextGranularity(pushGranularity)
    /\ UNCHANGED <<streakVars, gridVars, warnVars, peakVars, appVars,
                   statsVars, fmtVars, rateVars, themeVars,
                   charVars, labelVars, repoVars>>

LaterIdle == StatsIdle /\ FmtIdle /\ RateIdle /\ ThemeIdle

RestIdle == CharIdle /\ LabelIdle /\ RepoIdle /\ KeyIdle

-----------------------------------------------------------------------------
(* Specifications *)

Init == AppInit /\ StreakIdle /\ GridIdle /\ WarnIdle /\ PeakIdle /\ LaterIdle /\ RestIdle

Next ==
    \/ KeyQuit
    \/ KeyWhileLoading
    \/ KeyOther
    \/ KeyRefresh
    \/ KeyTogglePublic
    \/ WindowSize
    \/ RecvProfile
    \/ RecvContributions
    \/ RecvLanguages
    \/ RecvRepositories
    \/ RecvActivities
    \/ RecvAvatar
    \/ RecvErr

Spec == Init /\ [][Next]_vars

InitStreak ==
    /\ AppIdle /\ GridIdle /\ WarnIdle /\ PeakIdle /\ LaterIdle /\ RestIdle
    /\ contributions \in StreakInputs
    /\ today \in StreakDates
    /\ streakPc = "start"
    /\ currentStreak = 0
    /\ longestStreak = 0

NextStreak == ComputeStreaks

SpecStreak == InitStreak /\ [][NextStreak]_vars

InitGrid ==
    /\ AppIdle /\ StreakIdle /\ WarnIdle /\ PeakIdle /\ LaterIdle /\ RestIdle
    /\ gContributions \in GridInputs
    /\ gridPc = "start"
    /\ grid = ZeroGrid

NextGrid == BuildGrid

SpecGrid == InitGrid /\ [][NextGrid]_vars

InitWarn ==
    /\ AppIdle /\ StreakIdle /\ GridIdle /\ PeakIdle /\ LaterIdle /\ RestIdle
    /\ terminalWidth \in (0 - NegWidths)..MaxWidth
    /\ warnPc = "start"
    /\ rendered = Render

NextWarn == CallRenderResponsive

SpecWarn == InitWarn /\ [][NextWarn]_vars

InitPeak ==
    /\ AppIdle /\ StreakIdle /\ GridIdle /\ WarnIdle /\ LaterIdle /\ RestIdle
    /\ now \in Nows
    /\ activities \in PeakInputs(now)
    /\ window \in TimeWindows
    /\ peakPc = "start"
    /\ hoursIter = <<>>
    /\ peakString = ""
    /\ hourCounts = EmptyMap

NextPeak == CallPeakCodingHour

SpecPeak == InitPeak /\ [][NextPeak]_vars

\* the activities of TestCalculatePeakCodingHour, built from its now
TestActivities(t) ==
    <<Activity("PushEvent", t - 1), Activity("PushEvent", t - 2),
      Activity("PushEvent", t - 2), Activity("IssueEvent", t - 3),
      Activity("PushEvent", t - 50)>>

\* the test may run at any hour of the day
DayNows == {480000 + h : h \in 0..23}

InitPeakDay ==
    /\ AppIdle /\ StreakIdle /\ GridIdle /\ WarnIdle /\ LaterIdle /\ RestIdle
    /\ now \in DayNows
    /\ activities = TestActivities(now)
    /\ window \in TimeWindows
    /\ peakPc = "start"
    /\ hoursIter = <<>>
    /\ peakString = ""
    /\ hourCounts = EmptyMap

SpecPeakDay == InitPeakDay /\ [][NextPeak]_vars

InitStats ==
    /\ AppIdle /\ StreakIdle /\ GridIdle /\ WarnIdle /\ PeakIdle
    /\ FmtIdle /\ RateIdle /\ ThemeIdle /\ RestIdle
    /\ sContributions \in StatsInputs
    /\ levelCount \in LevelInputs
    /\ statsPc = {}
    /\ stats = Stats(0, 0, 0, 0, 0)
    /\ level = 0

NextStats == CallCalculateStats \/ CallGetContributionLevel

SpecStats == InitStats /\ [][NextStats]_vars

InitFormat ==
    /\ AppIdle /\ StreakIdle /\ GridIdle /\ WarnIdle /\ PeakIdle
    /\ StatsIdle /\ RateIdle /\ ThemeIdle /\ RestIdle
    /\ fStart \in 1..12
    /\ fStartPeriod \in Periods
    /\ fEnd \in 1..12
    /\ fEndPeriod \in Periods
    /\ fmtPc = "start"
    /\ fmtResult = ""

NextFormat == CallFormatHourRange

SpecFormat == InitFormat /\ [][NextFormat]_vars

InitRate ==
    /\ AppIdle /\ StreakIdle /\ GridIdle /\ WarnIdle /\ PeakIdle
    /\ StatsIdle /\ FmtIdle /\ ThemeIdle /\ RestIdle
    /\ rNow \in Nows
    /\ rActivities \in RateInputs(rNow)
    /\ granularity \in PushGranularities
    /\ ratePc = "start"
    /\ pushRate = FZero

NextRate == CallPushRate

SpecRate == InitRate /\ [][NextRate]_vars

\* main calls InitTheme before it builds the Model; the t key may come
\* while the first batch is still loading or after its results have arrived
InitThemes ==
    /\ AppInit \/ AppLoaded
    /\ StreakIdle /\ GridIdle /\ WarnIdle /\ PeakIdle
    /\ StatsIdle /\ FmtIdle /\ RateIdle /\ RestIdle
    /\ \E env \in EnvThemes :
          \/ \E ext \in SUBSET ExternalThemes : InitBuiltInThemes(env, ext)
          \/ \E all \in (SUBSET GoghThemes) \ {{}} : InitGoghThemes(env, all)
    /\ startTheme = currentThemeName
    /\ tPresses = 0
    /\ visited = <<>>

NextThemes == KeyTheme

SpecThemes == InitThemes /\ [][NextThemes]_vars

InitChars ==
    /\ AppIdle /\ StreakIdle /\ GridIdle /\ WarnIdle /\ PeakIdle /\ LaterIdle
    /\ LabelIdle /\ RepoIdle /\ KeyIdle
    /\ char \in Runes
    /\ charPc = "start"
    /\ charIndex = 0

NextChars == CallGetCharIndex

SpecChars == InitChars /\ [][NextChars]_vars

InitLabels ==
    /\ AppIdle /\ StreakIdle /\ GridIdle /\ WarnIdle /\ PeakIdle /\ LaterIdle
    /\ CharIdle /\ RepoIdle /\ KeyIdle
    /\ lContributions \in LabelInputs
    /\ labelPc = "start"
    /\ anchorDate = 0
    /\ walkSteps = 0
    /\ labelRow = <<>>

NextLabels == RenderMonthLabels

SpecLabels == InitLabels /\ [][NextLabels]_vars

InitRepos ==
    /\ AppIdle /\ StreakIdle /\ GridIdle /\ WarnIdle /\ PeakIdle /\ LaterIdle
    /\ CharIdle /\ LabelIdle /\ KeyIdle
    /\ viewWidth \in 0..MaxViewWidth
    /\ repoName \in 0..MaxNameLen
    /\ repoPc = "start"
    /\ repoLine = <<>>

NextRepos == ViewTopRepos

SpecRepos == InitRepos /\ [][NextRepos]_vars

\* the keys of the dashboard, pressed while the first batch is loading or
\* after its results have arrived
InitKeys ==
    /\ AppInit \/ AppLoaded
    /\ StreakIdle /\ GridIdle /\ WarnIdle /\ PeakIdle
    /\ StatsIdle /\ FmtIdle /\ RateIdle
    /\ CharIdle /\ LabelIdle /\ RepoIdle /\ KeyIdle
    /\ \E env \in {"", "nord"} : InitBuiltInThemes(env, {})
    /\ startTheme = currentThemeName
    /\ tPresses = 0
    /\ visited = <<>>

NextKeys ==
    \/ KeyQuit
    \/ KeyWhileLoading
    \/ KeyOther
    \/ KeyRefresh
    \/ KeyTogglePublic
    \/ KeyGranularity
    \/ KeyTheme

SpecKeys == InitKeys /\ [][NextKeys]_vars

\* the dashboard when no fetch fails and the runtime delivers the message
\* of every command it was handed
NextDelivery ==
    \/ KeyQuit
    \/ KeyWhileLoading
    \/ KeyOther
    \/ KeyRefresh
    \/ KeyTogglePublic
    \/ WindowSize
    \/ RecvProfile
    \/ RecvContributions
    \/ RecvLanguages
    \/ RecvRepositories
    \/ RecvActivities
    \/ RecvAvatar

Delivery ==
    /\ WF_vars(RecvProfile)
    /\ WF_vars(RecvContributions)
    /\ WF_vars(RecvLanguages)
    /\ WF_vars(RecvRepositories)
    /\ WF_vars(RecvActivities)
    /\ WF_vars(RecvAvatar)

SpecDelivery == Init /\ [][NextDelivery]_vars /\ Delivery

-----------------------------------------------------------------------------
(* Properties *)

\* C1: for every contribution sequence in non-decreasing date order (repeated
\* dates and dates after today included) and every today, the longest streak
\* is at least the current streak.
C1_LongestAtLeastCurrent ==
    streakPc = "done" => longestStreak >= currentStreak

\* the length of the run of consecutive days ending at d that each have an
\* entry with a positive count
RECURSIVE RunEndingAt(_, _)
RunEndingAt(cs, d) ==
    IF \E i \in DOMAIN cs : cs[i].Date = d /\ cs[i].Count > 0
    THEN 1 + RunEndingAt(cs, d - 1)
    ELSE 0

\* C2: grace rule: when the sequence (one entry per date) has an entry dated
\* today with count 0 and the entry dated yesterday has a positive count, the
\* current streak is not 0: it is the length of the run of positive days
\* ending yesterday.
C2_GraceRule ==
    (/\ streakPc = "done"
     /\ StrictlyIncreasing(contributions)
     /\ \E i \in DOMAIN contributions :
            contributions[i].Date = today /\ contributions[i].Count = 0
     /\ \E j \in DOMAIN contributions :
            contributions[j].Date = today - 1 /\ contributions[j].Count > 0)
    => /\ currentStreak # 0
       /\ currentStreak = RunEndingAt(contributions, today - 1)

\* the Sunday on or before the first contribution's date
AnchorOf(cs) == cs[1].Date - (cs[1].Date % 7)

\* C3: grid round trip: for a sequence in non-decreasing date order with one
\* entry per date, every entry dated d with anchor <= d < anchor + 364 is
\* read back from grid[weekday(d)][(d - anchor) div 7].
C3_GridRoundTrip ==
    (gridPc = "done" /\ StrictlyIncreasing(gContributions))
    => \A i \in DOMAIN gContributions :
          LET d      == gContributions[i].Date
              anchor == AnchorOf(gContributions)
          IN  (anchor <= d /\ d < anchor + 364)
              => grid[d % 7][(d - anchor) \div 7] = gContributions[i].Count

\* a sorted sequence that starts on a Wednesday and holds a positive count on
\* the last day of the window, read back from week column 51
C3_Witness ==
    /\ gridPc = "done"
    /\ StrictlyIncreasing(gContributions)
    /\ Len(gContributions) >= 2
    /\ gContributions[1].Date = 10
    /\ \E i \in DOMAIN gContributions :
          gContributions[i].Date = 370 /\ gContributions[i].Count = 2
    /\ grid[6][51] = 2

\* the cell (day, week) as the in-window contributions alone determine it:
\* the count of the last of them that falls on the cell, else 0
CellFromWindow(cs, day, week) ==
    LET anchor == AnchorOf(cs)
        on == {i \in DOMAIN cs :
                  /\ anchor <= cs[i].Date /\ cs[i].Date < anchor + 7 * weeksToDisplay
                  /\ cs[i].Date % 7 = day
                  /\ (cs[i].Date - anchor) \div 7 = week}
    IN  IF on = {} THEN 0
        ELSE cs[CHOOSE i \in on : \A k \in on : k <= i].Count

\* C4: windowing: for every contribution sequence, sorted or not, a
\* contribution dated before the anchor or at/after anchor + 52 weeks changes
\* no grid cell: the grid is the one the in-window contributions give.
C4_OutOfWindowDropped ==
    (gridPc = "done" /\ Len(gContributions) > 0)
    => \A day \in 0..6, week \in 0..51 :
          grid[day][week] = CellFromWindow(gContributions, day, week)

\* C5: RenderResponsive returns the width-warning box if and only if
\* terminalWidth < 108, the full graph for every terminalWidth >= 108, and
\* one of the two for every width.
C5_WarningIffBelow108 ==
    warnPc = "done"
    => /\ rendered.kind \in {"warning", "graph"}
       /\ (rendered.kind = "warning") <=> (terminalWidth < 108)
       /\ terminalWidth >= 108 => (rendered.kind = "graph" /\ rendered.columns = 52)

C5_Witness ==
    warnPc = "done" /\ terminalWidth = 107 /\ rendered.kind = "warning"

\* C6: in the running application, after any window-resize messages,
\* whenever the dashboard is shown with a terminal width below 108 and
\* contributions loaded, its graph section is the width-warning panel and not
\* the 52-column grid.
C6_NarrowShowsWarning ==
    (ready /\ View.screen = "dashboard" /\ width < 108 /\ graph # "nil")
    => /\ View.graphSection.kind = "warning"
       /\ View.graphSection.columns # 52

FullHint  == "Increase terminal width to view contribution grid"
ShortHint == "Increase width for graph"
TooNarrow == "Terminal too narrow"

\* the warning text selected by tiers lo and hi of the terminal width
TiersAt(lo, hi) ==
    (warnPc = "done" /\ terminalWidth < 108)
    => /\ terminalWidth < lo
          => (rendered.message = TooNarrow /\ rendered.detail = "")
       /\ (lo <= terminalWidth /\ terminalWidth < hi)
          => (rendered.message = ShortHint /\ rendered.detail = "")
       /\ hi <= terminalWidth
          => /\ rendered.message = FullHint
             /\ rendered.detail =
                   "Need 108 columns, have " \o ToString(terminalWidth)

\* C7 as stated: terminalWidth < 30 gives 'too narrow', 30 <= terminalWidth
\* < 50 the short hint, 50 <= terminalWidth < 108 the full hint plus the
\* detail line 'Need 108 columns, have <terminalWidth>'.
C7_TiersByTerminalWidth == TiersAt(30, 50)

\* C7 amended: the tiers are those of the box width terminalWidth - 4:
\* terminalWidth < 34 gives 'too narrow', 34 <= terminalWidth < 53 the short
\* hint, 53 <= terminalWidth < 108 the full hint plus the detail line.
C7_TiersByBoxWidth == TiersAt(34, 53)

C7_Witness ==
    /\ warnPc = "done"
    /\ terminalWidth = 80
    /\ rendered.message = FullHint
    /\ rendered.detail = "Need 108 columns, have 80"

\* C8: for every terminalWidth from 0 to 107 the message line, and the
\* detail line when present, are no longer than the box width
\* terminalWidth - 4.
C8_TextFitsBox ==
    (warnPc = "done" /\ 0 <= terminalWidth /\ terminalWidth <= 107)
    => /\ Len(rendered.message) <= terminalWidth - 4
       /\ rendered.detail # "" => Len(rendered.detail) <= terminalWidth - 4

\* the events at or after the cutoff
InWindowEvents ==
    {i \in DOMAIN activities : activities[i].Timestamp >= Cutoff(window, now)}

\* the numerically smallest hour whose number of in-window events is largest
LowestPeakHour ==
    LET inw   == InWindowEvents
        cnt   == [h \in 0..23 |->
                     Cardinality({i \in inw : activities[i].Timestamp % 24 = h})]
        most  == CHOOSE c \in {cnt[h] : h \in 0..23} : \A h \in 0..23 : cnt[h] <= c
    IN  CHOOSE h \in 0..23 : cnt[h] = most /\ \A g \in 0..(h - 1) : cnt[g] # most

\* the label of the range that starts at hour h (index h + 1)
RangeLabels ==
    <<"12-1am", "1-2am", "2-3am", "3-4am", "4-5am", "5-6am",
      "6-7am", "7-8am", "8-9am", "9-10am", "10-11am", "11am-12pm",
      "12-1pm", "1-2pm", "2-3pm", "3-4pm", "4-5pm", "5-6pm",
      "6-7pm", "7-8pm", "8-9pm", "9-10pm", "10-11pm", "11pm-12am">>

\* C9: peak-hour tie-break: the label is the range of the numerically
\* smallest hour whose count is the maximum, whatever the order of the events
\* and of the iteration over the map.
C9_TieBreakLowestHour ==
    (peakPc = "done" /\ InWindowEvents # {})
    => peakString = RangeLabels[LowestPeakHour + 1]

\* hours 23 and 0 tie, the hour 23 event comes first in the list and the map
\* gave hour 23 first
C9_Witness ==
    /\ peakPc = "done"
    /\ hoursIter = <<23, 0>>
    /\ HourOf(activities[1].Timestamp) = 23
    /\ hourCounts[23] = hourCounts[0]
    /\ peakString = "12-1am"

\* C10: with no event at or after the cutoff (the empty list included) the
\* label is 'No data' and the distribution is empty; with at least one event
\* in the window the label is not 'No data'.
C10_NoDataSentinel ==
    peakPc = "done"
    => /\ InWindowEvents = {}
          => (peakString = "No data" /\ DOMAIN hourCounts = {})
       /\ InWindowEvents # {} => peakString # "No data"

\* events exist but all lie before the cutoff
C10_Witness ==
    /\ peakPc = "done"
    /\ Len(activities) > 0
    /\ InWindowEvents = {}
    /\ peakString = "No data"
    /\ DOMAIN hourCounts = {}

\* the sum of the values of a map
RECURSIVE MapSum(_)
MapSum(hc) ==
    IF DOMAIN hc = {} THEN 0
    ELSE LET h == CHOOSE x \in DOMAIN hc : TRUE
         IN  hc[h] + MapSum([g \in (DOMAIN hc) \ {h} |-> hc[g]])

\* the length of each window in days
WindowDays == [ThisWeek |-> 7, ThisMonth |-> 30, ThisYear |-> 365]

C12_FiftyHoursOutside ==
    (peakPc = "done" /\ window = "ThisWeek" /\ activities = TestActivities(now))
    => /\ MapSum(hourCounts) = 4
       /\ hourCounts[HourOf(now - 2)] = 2

\* one entry per day, each dated the day after the entry before it
ConsecutiveDays(cs) == \A i \in 1..(Len(cs) - 1) : cs[i + 1].Date = cs[i].Date + 1

\* the number of entries after the last entry with count 0
TrailingPositive(cs) ==
    LET zeros == {i \in DOMAIN cs : cs[i].Count = 0}
    IN  IF zeros = {} THEN Len(cs)
        ELSE Len(cs) - (CHOOSE i \in zeros : \A j \in zeros : j <= i)

\* C13: for a sequence of consecutive days in increasing order whose last
\* entry is dated today with a positive count, the current streak is the
\* number of trailing positive entries before the first zero-count day going
\* backward (positive, zero, positive-today gives 1); when all n entries are
\* positive, the current and the longest streak are both n.
C13_CurrentStreakTrailing ==
    (/\ streakPc = "done"
     /\ Len(contributions) > 0
     /\ ConsecutiveDays(contributions)
     /\ contributions[Len(contributions)].Date = today
     /\ contributions[Len(contributions)].Count > 0)
    => /\ currentStreak = TrailingPositive(contributions)
       /\ (\A i \in DOMAIN contributions : contributions[i].Count > 0)
            => (currentStreak = Len(contributions)
                /\ longestStreak = Len(contributions))

\* three consecutive days, the middle one without contributions, the last
\* one today: the streak is 1
C13_Witness ==
    /\ streakPc = "done"
    /\ Len(contributions) = 3
    /\ ConsecutiveDays(contributions)
    /\ contributions[3].Date = today
    /\ contributions[1].Count > 0
    /\ contributions[2].Count = 0
    /\ contributions[3].Count > 0
    /\ currentStreak = 1

\* the sum of the counts of a sequence of contributions
RECURSIVE SumCounts(_)
SumCounts(cs) == IF cs = <<>> THEN 0 ELSE cs[1].Count + SumCounts(Tail(cs))

\* C14: CalculateStats returns total = the sum of the counts, activeDays =
\* the number of entries with a positive count, totalDays = the number of
\* entries, maxDay = the largest count and averagePerDay = the floor of
\* total / totalDays when totalDays > 0 and 0 otherwise; the empty sequence
\* gives totalDays = 0 and averagePerDay = 0.
C14_SummaryStats ==
    "stats" \in statsPc
    => LET cs == sContributions
           n  == Len(cs)
       IN  /\ stats.Total = SumCounts(cs)
           /\ stats.ActiveDays = Cardinality({i \in 1..n : cs[i].Count > 0})
           /\ stats.TotalDays = n
           /\ stats.MaxDay >= 0
           /\ \A i \in 1..n : cs[i].Count <= stats.MaxDay
           /\ n > 0 => \E i \in 1..n : cs[i].Count = stats.MaxDay
           /\ n = 0 => stats.MaxDay = 0 /\ stats.AverageDay = 0
           /\ n > 0 => /\ stats.AverageDay * n <= stats.Total
                        /\ stats.Total < (stats.AverageDay + 1) * n

\* three days with counts 3, 0 and 2: total 5, two active days, the average
\* 5 / 3 is floored to 1
C14_Witness ==
    /\ "stats" \in statsPc
    /\ Len(sContributions) = 3
    /\ stats = Stats(5, 2, 3, 1, 3)

\* C15: getContributionLevel maps 0 to 0, 1..3 to 1, 4..6 to 2, 7..9 to 3
\* and every count from 10 on (1000 included) to 4; the level never
\* decreases when the count grows.
C15_LevelThresholds ==
    "level" \in statsPc
    => /\ level \in 0..4
       /\ level = 0 <=> levelCount = 0
       /\ level = 1 <=> levelCount \in 1..3
       /\ level = 2 <=> levelCount \in 4..6
       /\ level = 3 <=> levelCount \in 7..9
       /\ level = 4 <=> levelCount >= 10
       /\ \A c \in LevelInputs :
             c <= levelCount => getContributionLevel(c) <= level

\* the level of 1000 is 4
C15_Witness ==
    /\ "level" \in statsPc
    /\ levelCount = 1000
    /\ level = 4

\* the 12-hour label of the range from hour h to (h + 1) mod 24
TwelveHour(h) == IF h = 0 THEN 12 ELSE IF h > 12 THEN h - 12 ELSE h
Meridiem(h)   == IF h < 12 THEN "am" ELSE "pm"
ExpectedLabel(h) ==
    LET e == (h + 1) % 24
    IN  IF Meridiem(h) = Meridiem(e)
        THEN ToString(TwelveHour(h)) \o "-" \o ToString(TwelveHour(e)) \o Meridiem(e)
        ELSE ToString(TwelveHour(h)) \o Meridiem(h) \o "-"
                 \o ToString(TwelveHour(e)) \o Meridiem(e)

C17_KeepsLetterCase ==
    fmtPc = "done"
    => /\ fmtResult =
            IF fStartPeriod = fEndPeriod
            THEN ToString(fStart) \o "-" \o ToString(fEnd) \o fEndPeriod
            ELSE ToString(fStart) \o fStartPeriod \o "-"
                     \o ToString(fEnd) \o fEndPeriod
       /\ (fStart = 2 /\ fStartPeriod = "PM" /\ fEnd = 3 /\ fEndPeriod = "PM")
            => fmtResult = "2-3PM"
       /\ (fStart = 11 /\ fStartPeriod = "AM" /\ fEnd = 12 /\ fEndPeriod = "PM")
            => fmtResult = "11AM-12PM"
       /\ (fStart = 1 /\ fStartPeriod = "AM" /\ fEnd = 2 /\ fEndPeriod = "AM")
            => fmtResult = "1-2AM"

\* the push events dated after now - 7 days
PushesInWindow ==
    {i \in DOMAIN rActivities :
        /\ rActivities[i].Type = "PushEvent"
        /\ rActivities[i].Timestamp > rNow - 7 * 24}

\* the float64 just above 29: 29 + 2^-48 = 29.000000000000004
Above29 == [m |-> <<1, 1, 1, 0, 1>> \o Zeros(47) \o <<1>>, e |-> -48]

\* the rate for n > 0 push events, the rate per week being perWeek
RateIs(n, perWeek) ==
    LET daily == FDiv(FromInt(n), 7)
    IN  CASE granularity = PushPerHour  -> pushRate = FDiv(daily, 24)
          [] granularity = PushPerDay   -> pushRate = daily
          [] granularity = PushPerWeek  -> pushRate = perWeek
          [] granularity = PushPerMonth -> pushRate = FMul(daily, 30)

\* C18 as stated: with n the number of PushEvent events of the last 7 days,
\* CalculatePushRate returns exactly 0.0 when n = 0 and otherwise n/7 per
\* day, (n/7)/24 per hour, (n/7)*7 = n per week and (n/7)*30 per month;
\* events of other types and older push events never change the result.
C18_PerWeekIsCount ==
    ratePc = "done"
    => LET n == Cardinality(PushesInWindow)
       IN  IF n = 0 THEN pushRate = FZero ELSE RateIs(n, FromInt(n))

\* C18 amended: as above, but the rate per week is the float64 product
\* (n/7)*7, which is n for every n up to 28 and 29.000000000000004 for
\* n = 29.
C18_PerWeekIsProduct ==
    ratePc = "done"
    => LET n == Cardinality(PushesInWindow)
       IN  /\ IF n = 0 THEN pushRate = FZero
              ELSE RateIs(n, FMul(FDiv(FromInt(n), 7), 7))
           /\ (granularity = PushPerWeek /\ n \in 1..28) => pushRate = FromInt(n)
           /\ (granularity = PushPerWeek /\ n = 29) => pushRate = Above29
           /\ (granularity = PushPerDay /\ n = 7) => pushRate = FromInt(1)
           /\ (granularity = PushPerDay /\ n = 28) => pushRate = FromInt(4)
           /\ (granularity = PushPerMonth /\ n = 14) => pushRate = FromInt(60)

\* 29 push events of the last 7 days and one that is exactly 7 days old:
\* the rate per week is just above 29
C18_Witness ==
    /\ ratePc = "done"
    /\ granularity = PushPerWeek
    /\ Len(rActivities) = 30
    /\ Cardinality(PushesInWindow) = 29
    /\ \E i \in DOMAIN rActivities :
          rActivities[i] = Activity("PushEvent", rNow - 168)
    /\ pushRate = Above29

\* the kinds of which a step hands a new fetch to the runtime
IssuedKinds ==
    {k \in FetchKinds : \E p \in BOOLEAN : pending'[Fetch(k, p)] > pending[Fetch(k, p)]}

\* a step that toggles the view or issues the batch of the p key (a batch
\* with a languages fetch and no contributions fetch)
ToggleStep ==
    \/ publicOnly' # publicOnly
    \/ ("languages" \in IssuedKinds /\ "contributions" \notin IssuedKinds)

\* C19: the p key toggles the public-only view on the user's own profile
\* only.  On another user's profile no step flips publicOnly or issues the
\* batch of the p key.  On the own profile, with nothing loading, the step
\* flips publicOnly, marks profile, languages, repositories and activities
\* (and nothing else) as loading, hands the runtime exactly one fetch of each
\* of those four, built with includePrivate = not publicOnly, and leaves the
\* contributions, the graph and the other data unchanged.
C19_TogglePublicOnly ==
    [][ToggleStep
        => /\ isOwnProfile /\ isOwnProfile'
           /\ ~isLoading(loading)
           /\ publicOnly' = ~publicOnly
           /\ loading' = [profile |-> TRUE, contributions |-> FALSE,
                          languages |-> TRUE, repositories |-> TRUE,
                          activities |-> TRUE, avatar |-> FALSE]
           /\ \A f \in AllFetches :
                 pending'[f] = pending[f] +
                    (IF /\ f.kind \in {"profile", "languages", "repositories", "activities"}
                        /\ f.priv = ~publicOnly'
                     THEN 1 ELSE 0)
           /\ UNCHANGED <<graph, profile, languages, repositories, mActivities,
                          err, ready, width, quitting>>]_vars

\* the own profile after p: public-only view, the four fetches in flight,
\* built without includePrivate, the graph still there
C19_Witness ==
    /\ isOwnProfile
    /\ publicOnly
    /\ graph # "nil"
    /\ loading = LoadingState(TRUE, FALSE, TRUE, TRUE, TRUE, FALSE)
    /\ PendingSize = 4
    /\ \A k \in {"profile", "languages", "repositories", "activities"} :
          pending[Fetch(k, FALSE)] = 1

\* the place of the starting theme in themeOrder (from 1)
StartPlace == CHOOSE i \in DOMAIN themeOrder : themeOrder[i] = startTheme

\* the entry of themeOrder k places after the starting theme, wrapping around
PlacesAfterStart(k) == themeOrder[((StartPlace - 1 + k) % Len(themeOrder)) + 1]

\* C20 as stated: the t key cycles through the themes: each press moves
\* currentThemeName to the next entry of themeOrder with wrap-around, so N
\* presses (N the length of themeOrder) return to the starting theme; after
\* every press CurrentTheme is themes[currentThemeName].
C20_EveryPressMoves ==
    /\ currentThemeName = PlacesAfterStart(tPresses)
    /\ CurrentTheme = themes[currentThemeName]

\* C20 amended: a press while data is loading is ignored; the k-th press
\* made while nothing is loading moves currentThemeName to the entry of
\* themeOrder k places after the starting theme, wrapping around from the
\* last to the first, so N such presses visit every theme exactly once and
\* return to the starting theme; after every such press CurrentTheme is
\* themes[currentThemeName].
C20_ThemeCycle ==
    LET N == Len(themeOrder)
    IN  /\ isLoading(loading) => (visited = <<>> /\ currentThemeName = startTheme)
        /\ ~isLoading(loading) => Len(visited) = tPresses
        /\ \A k \in DOMAIN visited : visited[k] = PlacesAfterStart(k)
        /\ Len(visited) >= N
              => /\ {visited[k] : k \in 1..N} = Range(themeOrder)
                 /\ \A j, k \in 1..N : visited[j] = visited[k] => j = k
                 /\ visited[N] = startTheme
        /\ Len(visited) >= 1
              => /\ currentThemeName = visited[Len(visited)]
                 /\ currentThemeName \in DOMAIN themes
                 /\ CurrentTheme = themes[currentThemeName]

\* five themes, started on the last one: the fifth press is back on it
C20_Witness ==
    /\ ~isLoading(loading)
    /\ Len(themeOrder) = 5
    /\ startTheme = themeOrder[5]
    /\ tPresses = 5
    /\ Len(visited) = 5
    /\ visited[1] = themeOrder[1]
    /\ currentThemeName = startTheme

\* the characters of the font in the order of its glyphs
FontOrder == <<65, 66, 67, 68, 69, 70, 71, 72, 73, 74, 75, 76, 77,
               78, 79, 80, 81, 82, 83, 84, 85, 86, 87, 88, 89, 90,
               48, 49, 50, 51, 52, 53, 54, 55, 56, 57, 64, 32>>

\* C21: getCharIndex maps 'A'..'Z' to 0..25, '0'..'9' to 26..35, '@' to 36
\* and space to 37, and every other rune (lower-case letters included) to
\* -1; so it is injective on the supported characters and every
\* non-negative result is in 0..37.
C21_CharIndex ==
    charPc = "done" =>
        /\ (\E k \in 1..Len(FontOrder) : FontOrder[k] = char)
              => (charIndex \in 0..37 /\ FontOrder[charIndex + 1] = char)
        /\ (\A k \in 1..Len(FontOrder) : FontOrder[k] # char) => charIndex = 0 - 1
        /\ char \in 97..122 => charIndex = 0 - 1
        /\ charIndex >= 0
              => /\ charIndex \in 0..37
                 /\ \A other \in Runes : getCharIndex(other) = charIndex => other = char

\* the last glyph: the space
C21_Witness ==
    /\ charPc = "done"
    /\ char = 32
    /\ charIndex = 37

\* entries i..j all have a positive count and fall on consecutive days
PositiveBlock(cs, i, j) ==
    /\ \A k \in i..j : cs[k].Count > 0
    /\ \A k \in i..(j - 1) : cs[k + 1].Date = cs[k].Date + 1

\* the length of the longest such block, 0 when there is none
LongestBlock(cs) ==
    LET lengths == {j - i + 1 : <<i, j>> \in
                      {b \in (DOMAIN cs) \X (DOMAIN cs) :
                          b[1] <= b[2] /\ PositiveBlock(cs, b[1], b[2])}}
    IN  IF lengths = {} THEN 0
        ELSE CHOOSE n \in lengths : \A other \in lengths : other <= n

\* C22: for every contribution sequence in strictly increasing date order,
\* calculateLongestStreak returns the greatest length of a block of entries
\* that all have a positive count and fall on consecutive calendar days (0
\* when no entry has a positive count): a zero-count entry or a missing day
\* between two entries ends the running block.
C22_LongestBlock ==
    (streakPc = "done" /\ StrictlyIncreasing(contributions))
    => /\ longestStreak = LongestBlock(contributions)
       /\ (\A i \in DOMAIN contributions : contributions[i].Count = 0)
             => longestStreak = 0

\* three positive entries with day 3 missing, and a zero entry behind a
\* block of two
C22_Witness ==
    /\ streakPc = "done"
    /\ contributions \in
          { <<Contribution(1, 1), Contribution(2, 1), Contribution(4, 1)>>,
            <<Contribution(1, 1), Contribution(2, 1), Contribution(3, 0),
              Contribution(4, 1)>> }
    /\ longestStreak = 2

\* C23: for every non-empty contribution sequence the anchor is the Sunday on
\* or before the first contribution's date: its weekday is Sunday, the first
\* date lies 0 to 6 days after it (0 when that date is a Sunday), and the
\* backward walk that finds it ends after at most 6 steps.
C23_AnchorSunday ==
    (labelPc = "done" /\ Len(lContributions) > 0)
    => LET firstDate == lContributions[1].Date
       IN  /\ Weekday(anchorDate) = 0
           /\ firstDate - anchorDate \in 0..6
           /\ Weekday(firstDate) = 0 => anchorDate = firstDate
           /\ walkSteps \in 0..6
           /\ walkSteps = firstDate - anchorDate

\* a first contribution on a Saturday: six steps back
C23_Witness ==
    /\ labelPc = "done"
    /\ Len(lContributions) > 0
    /\ Weekday(lContributions[1].Date) = 6
    /\ walkSteps = 6
    /\ anchorDate = lContributions[1].Date - 6

\* the months of the week columns
ColumnMonths == [w \in 0..51 |-> Month(anchorDate + 7 * w)]

\* whether column w gets a label, given the months cm of the columns
Labelled(cm, w) == w = 0 \/ cm[w] # cm[w - 1]

\* C24 as stated: the label row has 104 characters and holds the full
\* three-letter abbreviation of the month of column w at the positions 2w,
\* 2w+1, 2w+2 for exactly the columns w in 0..51 that are column 0 or differ
\* in month from column w-1, and spaces everywhere else: no label is cut
\* short or overwritten by another.
C24_FullLabels ==
    (labelPc = "done" /\ Len(lContributions) > 0)
    => LET cm == ColumnMonths
           ws == {w \in 0..51 : Labelled(cm, w)}
       IN  /\ DOMAIN labelRow = 0..103
           /\ \A w \in ws : \A i \in 0..2 :
                 /\ 2 * w + i \in DOMAIN labelRow
                 /\ labelRow[2 * w + i] = months[cm[w]][i + 1]
           /\ \A p \in DOMAIN labelRow :
                 (\A w \in ws : p - 2 * w \notin 0..2) => labelRow[p] = " "

\* the last column of ws whose label reaches position p; -1 when none
LastLabelAt(ws, p) ==
    LET reach == {w \in ws : p - 2 * w \in 0..2}
    IN  IF reach = {} THEN 0 - 1 ELSE CHOOSE w \in reach : \A v \in reach : v <= w

\* C24 amended: every position of the 104-character row holds the letter of
\* the last labelled column whose label reaches it, and a space when no label
\* reaches it.  A label stands in full unless the next column is labelled
\* too, which happens only for column 0 (its third letter is overwritten),
\* or it starts at column 51 (its third letter is dropped).
C24_LabelRow ==
    (labelPc = "done" /\ Len(lContributions) > 0)
    => LET cm == ColumnMonths
           ws == {w \in 0..51 : Labelled(cm, w)}
       IN  /\ DOMAIN labelRow = 0..103
           /\ \A p \in DOMAIN labelRow :
                 LET w == LastLabelAt(ws, p)
                 IN  labelRow[p] = IF w < 0 THEN " "
                                   ELSE months[cm[w]][p - 2 * w + 1]
           /\ \A w \in ws : (w >= 1 => w + 1 \notin ws)
           /\ \A w \in ws :
                 (w <= 50 /\ w + 1 \notin ws) => \A i \in 0..2 :
                     labelRow[2 * w + i] = months[cm[w]][i + 1]

\* the anchor Sunday 29 January 2023: column 1 starts in February and its
\* label overwrites the third letter of "Jan"
C24_Witness ==
    /\ labelPc = "done"
    /\ Len(lContributions) > 0
    /\ anchorDate = 28
    /\ Labelled(ColumnMonths, 1)
    /\ <<labelRow[0], labelRow[1], labelRow[2], labelRow[3], labelRow[4]>>
          = <<"J", "a", "F", "e", "b">>

\* C29: the layout is safe at every width: for every terminal width >= 0 and
\* every repository name, the truncation of the name in renderTopRepos uses
\* a slice bound between 0 and the length of the name, so rendering the
\* dashboard never panics.
C29_NoPanic ==
    repoPc = "done"
    => /\ ~repoLine.panic
       /\ repoLine.kept \in 0..repoName

\* the fields of the model and of the theme system that a key can change
KeyFrame == <<isOwnProfile, publicOnly, loading, err, profile, graph, languages,
              repositories, mActivities, ready, width, pushGranularity,
              currentThemeName, CurrentTheme, themes, themeOrder>>

\* C25: while any loading flag is set, Update on a key other than q or ctrl+c
\* returns the model unchanged and no command: publicOnly, pushGranularity,
\* the theme and the loading flags keep their values and no fetch is issued.
\* q and ctrl+c return the quit command in every state, loading or not, and
\* leave the model as it is.
C25_KeysIgnoredWhileLoading ==
    /\ [][/\ (isLoading(loading) /\ quitting' = quitting)
               => UNCHANGED <<KeyFrame, pending, batches>>
          /\ quitting' # quitting
               => (quitting' /\ UNCHANGED <<KeyFrame, pending, batches>>)]_vars
    /\ [](~quitting => ENABLED KeyQuit)

\* t was pressed while the first batch loads and the program then quit:
\* the theme and the granularity are those of the start
C25_Witness ==
    /\ isLoading(loading)
    /\ tPresses > 0
    /\ quitting
    /\ currentThemeName = startTheme
    /\ pushGranularity = PushPerDay
    /\ publicOnly = FALSE
    /\ pending = Issue(NoPending, FetchAll(isOwnProfile))

\* the kinds of data of which a fetch is still in flight
Outstanding == {k \in FetchKinds : \E p \in BOOLEAN : pending[Fetch(k, p)] > 0}

\* C26: all data is marked as loading at start: from program start, in the
\* absence of an error, View shows the loading screen (isLoading() is true)
\* until the results for profile, contributions, languages, repositories and
\* activities have all been received; the dashboard is never displayed while
\* one of these five initial fetches is still outstanding.
C26_LoadingUntilAllReceived ==
    (batches = 0 /\ err = "nil" /\ Outstanding # {})
    => /\ isLoading(loading)
       /\ View.screen = "loading"

\* C27: the error state is absorbing: the step that handles the first errMsg
\* sets err and clears all loading flags, no later message (a data result
\* arriving late, the r key, the p key) sets err back to nil, and View
\* returns the error text in every later state.
C27_ErrorAbsorbing ==
    [][/\ err # "nil" => err' # "nil"
       /\ (err = "nil" /\ err' # "nil")
            => loading' = LoadingState(FALSE, FALSE, FALSE, FALSE, FALSE, FALSE)
       /\ err' # "nil" => View'.screen = "error"]_vars

\* after the error the other results arrived late and r was pressed: data
\* is loading again and the error is still there
C27_Witness ==
    /\ err # "nil"
    /\ profile # "nil"
    /\ batches = 1
    /\ isLoading(loading)
    /\ View.screen = "error"

\* the tag of data fetched with the includePrivate of the current view
CurrentData == Fetched(Fetch("profile", isOwnProfile /\ ~publicOnly))

\* C28: no stale data under interleaving: whenever isLoading() is false and
\* err is nil, the profile, languages, repositories and activities held by
\* the model were all fetched with includePrivate equal to the current value
\* of (isOwnProfile and not publicOnly).
C28_NoStaleData ==
    (~isLoading(loading) /\ err = "nil")
    => \A held \in {profile, languages, repositories, mActivities} :
          held \in {"nil", CurrentData}

\* the data kinds of which the step delivers a result
DeliveredKinds ==
    {k \in FetchKinds : \E p \in BOOLEAN : pending'[Fetch(k, p)] < pending[Fetch(k, p)]}

\* C30: loading terminates: when every fetch command delivers its result
\* and none fails, then after program start and after every r or p key press
\* the model reaches a state where isLoading() is false (unless the program
\* quits first); each result message clears exactly its own loading flag and
\* sets no other flag.
C30_LoadingTerminates ==
    /\ isLoading(loading) ~> (~isLoading(loading) \/ quitting)
    /\ [][\A k \in DeliveredKinds : loading' = [loading EXCEPT ![k] = FALSE]]_vars

\* after p on the own profile all four results have arrived
C30_Witness ==
    /\ batches = 1
    /\ publicOnly
    /\ ~isLoading(loading)
    /\ pending = NoPending
    /\ repositories = "public"
    /\ ~quitting

=============================================================================
